---- MODULE Spec2Model ----
(***************************************************************************)
(* Pipeline orchestration layer of the three-stage agent workflow:         *)
(*   - the intake stage's /stream_csv endpoint (source multiplexer,        *)
(*     per-record execution, severity classification, cost ledger,         *)
(*     streaming encoder): src/machine1_log_analysis/agent_gemini.py       *)
(*   - the cost ledger: src/cost_tracker.py                                *)
(*   - the request middleware and tool-call counter of the diagnosis and   *)
(*     remediation stages: src/machine2_diagnosis, src/machine3_remediation*)
(*                                                                         *)
(* Six specifications share the module:                                    *)
(*   Spec           one ingest request handled by stream_csv_endpoint      *)
(*   SpecClassify   the severity parsing applied to bounded response texts *)
(*   SpecTelemetry  interleaved HTTP requests through log_requests         *)
(*   SpecOneRequest one HTTP request through log_requests                  *)
(*   SpecCost       the cost trackers of two agents called in any order    *)
(*   SpecProcess    two ingest requests sharing the process's cost tracker *)
(***************************************************************************)
EXTENDS Integers, Sequences, FiniteSets, TLC

VARIABLES
    \* ---- stream_csv_endpoint / row_generator (intake stage) ----
    data,               \* the JSON body of the request: csv_paths and csv_path
    sources,            \* normalised source list: [rows, openable] per source
    pc,                 \* position of the endpoint / generator
    http_status,        \* status of the response object returned (0: none yet)
    chunks,             \* chunks yielded by row_generator so far
    row_count,          \* row_generator.row_count
    first,              \* row_generator.first
    file_handles,       \* row_generator.file_handles (source indices opened)
    open_handles,       \* handles opened and not yet closed
    readers,            \* row_generator.readers (source indices, list order)
    i,                  \* index of the for loop over enumerate(readers), 1-based
    readers_to_remove,  \* row_generator.readers_to_remove
    cursor,             \* rows already consumed from each source's DictReader
    cur,                \* the record being processed and its pending event
    downstream,         \* the calls of the engine's diagnosis_agent sub-agent
                        \* for the record in hand: the state of the latest
                        \* (idle, pending, answered) and how many were made
    severity_counts,    \* stream_csv_endpoint.severity_counts
    session_costs,      \* CostTracker.session_costs
    total_session_cost, \* CostTracker.total_session_cost (micro-dollars)
    reads,              \* history: <<source, index>> of every record read
    engine_log,         \* history: per engine invocation, what the engine did
    \* ---- severity parsing applied to one text ----
    cl_text,            \* response_text under classification
    cl_sev,             \* severity computed for cl_text ("unset" before)
    \* ---- log_requests middleware (diagnosis / remediation stage) ----
    tool_counter,       \* tools._TOOL_CALL_COUNTER (module global)
    mw_pc,              \* per request: position inside log_requests
    mw_method,          \* per request: HTTP method
    mw_invoked,         \* history: tool invocations made for each request
    mw_tool_count,      \* per request: tool_count read after call_next
    mw_stage,           \* the stage whose app runs the middleware
    mw_outcome,         \* per request: the tool execution summary logged
    mw_input_tokens,    \* per request: estimated_input_tokens
    mw_cost_error,      \* per request: the "Cost tracking error" warning was logged
    mw_handler,         \* history: the response call_next produced for each request
    mw_returned,        \* per request: the response log_requests returned
    \* ---- cost_tracker module: one CostTracker per agent name ----
    ct_trackers,        \* cost_tracker._cost_trackers: agent name -> tracker
    ct_calls,           \* history: every log_request_cost call and its result
    ct_summaries,       \* history: summaries returned since the last log call
    \* ---- two ingest requests in one intake process ----
    pr_pc,              \* per request: where its handler / generator is suspended
    pr_rows,            \* per request: records its source holds
    pr_row_count,       \* per request: row_generator.row_count
    pr_counts,          \* per request: stream_csv_endpoint.severity_counts
    pr_doc,             \* per request: chunks its generator has yielded
    pr_cur,             \* per request: the event due after the separator
    pr_tracker          \* the process's CostTracker of log_analysis_agent

streamVars == <<data, sources, pc, http_status, chunks, row_count, first, file_handles,
                open_handles, readers, i, readers_to_remove, cursor, cur,
                downstream, severity_counts, session_costs, total_session_cost,
                reads, engine_log>>
classVars  == <<cl_text, cl_sev>>
mwVars     == <<tool_counter, mw_pc, mw_method, mw_invoked, mw_tool_count,
                mw_stage, mw_outcome, mw_input_tokens, mw_cost_error,
                mw_handler, mw_returned>>
costVars   == <<ct_trackers, ct_calls, ct_summaries>>
procVars   == <<pr_pc, pr_rows, pr_row_count, pr_counts, pr_doc, pr_cur,
                pr_tracker>>
vars       == <<streamVars, classVars, mwVars, costVars, procVars>>

-----------------------------------------------------------------------------
(* Bounds of the explored inputs *)

MaxSources     == 2   \* sources in one ingest request
MaxRows        == 2   \* records per source
MaxRecordsFull == 2   \* runs with more records use the basic engine outcomes
MaxTextLen     == 4   \* fragments in a classified response text
MaxRequests    == 2   \* HTTP requests in flight at a middleware
MaxToolCalls   == 4   \* tool invocations during one request
MaxCalls       == 2   \* log_request_cost calls made on the cost trackers
MaxSummaries   == 2   \* get_session_summary calls between two log calls
MaxIngestRecords == 2 \* records per request when two requests share a process
MaxA2aCalls    == 2   \* downstream calls the engine makes for one record
MaxRecordsForward == 1 \* runs with more records make no downstream call

None == "None"        \* Python None

-----------------------------------------------------------------------------
(* Response texts.  A text is a sequence of fragments; the fragments are    *)
(* chosen so that every pattern the code searches for ('RISK ASSESSMENT:',  *)
(* 'RISK ASSESSMENT: <LEVEL>', '<LEVEL>') can only match aligned with       *)
(* fragment boundaries or, for a level word, inside one fragment ("below"), *)
(* so substring search on the string is search over runs of fragments.      *)

\* the four known levels, most severe first
Levels == <<"CRITICAL", "HIGH", "MEDIUM", "LOW">>

Fragments == {"RISK ASSESSMENT: ", "Risk Assessment: ",
              "CRITICAL", "HIGH", "MEDIUM", "LOW",
              "critical", "low", "below", "ok", " "}

\* str.upper() on one fragment
UpperFragment(f) ==
    CASE f = "Risk Assessment: " -> "RISK ASSESSMENT: "
      [] f = "Risk Assessment:"  -> "RISK ASSESSMENT:"
      [] f = "critical"          -> "CRITICAL"
      [] f = "low"               -> "LOW"
      [] f = "below"             -> "BELOW"
      [] f = "ok"                -> "OK"
      [] f = "diagnosis_agent:"  -> "DIAGNOSIS_AGENT:"
      [] OTHER                   -> f

\* response_text.upper()
Upper(text) == [k \in 1..Len(text) |-> UpperFragment(text[k])]

\* len() of one fragment, in characters
FragmentLen(f) ==
    CASE f \in {"RISK ASSESSMENT: ", "Risk Assessment: "} -> 17
      [] f \in {"RISK ASSESSMENT:", "Risk Assessment:",
                 "diagnosis_agent:"}                      -> 16
      [] f \in {"CRITICAL", "critical"}                   -> 8
      [] f = "MEDIUM"                                     -> 6
      [] f = "below"                                      -> 5
      [] f = "HIGH"                                       -> 4
      [] f \in {"LOW", "low"}                             -> 3
      [] f = "ok"                                         -> 2
      [] OTHER                                            -> 1

RECURSIVE CharLen(_)
\* len(text)
CharLen(text) ==
    IF text = <<>> THEN 0 ELSE FragmentLen(Head(text)) + CharLen(Tail(text))

\* text.lstrip(): the leading whitespace fragments removed (no other
\* fragment starts with a blank)
RECURSIVE LStrip(_)
LStrip(text) ==
    IF text # <<>> /\ Head(text) = " " THEN LStrip(Tail(text)) ELSE text

\* f.rstrip() for a fragment f that is not whitespace: a marker fragment
\* loses the blank it ends with
RStripFragment(f) ==
    CASE f = "RISK ASSESSMENT: " -> "RISK ASSESSMENT:"
      [] f = "Risk Assessment: " -> "Risk Assessment:"
      [] OTHER                   -> f

\* text.rstrip(): the trailing whitespace fragments removed, and the blank
\* that ends the last fragment left
RECURSIVE RStrip(_)
RStrip(text) ==
    IF text = <<>> THEN text
    ELSE IF text[Len(text)] = " "
    THEN RStrip(SubSeq(text, 1, Len(text) - 1))
    ELSE [text EXCEPT ![Len(text)] = RStripFragment(@)]

\* text.strip()
Strip(text) == RStrip(LStrip(text))

\* pattern in text, for a pattern given as a run of fragments
Contains(text, pattern) ==
    \E k \in 1..(Len(text) - Len(pattern) + 1) :
        SubSeq(text, k, k + Len(pattern) - 1) = pattern

\* 'RISK ASSESSMENT:' in text_upper
HasMarkerPrefix(text_upper) ==
    \/ Contains(text_upper, <<"RISK ASSESSMENT: ">>)
    \/ Contains(text_upper, <<"RISK ASSESSMENT:">>)

\* 'RISK ASSESSMENT: <level>' in text_upper
HasMarker(text_upper, level) == Contains(text_upper, <<"RISK ASSESSMENT: ", level>>)

\* level in f, for one upper-cased fragment f
WordIn(level, f) == f = level \/ (level = "LOW" /\ f = "BELOW")

\* '<level>' in text_upper
HasKeyword(text_upper, level) ==
    \E k \in 1..Len(text_upper) : WordIn(level, text_upper[k])

\* lines 336-344: the labelled marker, most severe level first
MarkerSeverity(text_upper) ==
    IF HasMarker(text_upper, "CRITICAL") THEN "CRITICAL"
    ELSE IF HasMarker(text_upper, "HIGH") THEN "HIGH"
    ELSE IF HasMarker(text_upper, "MEDIUM") THEN "MEDIUM"
    ELSE IF HasMarker(text_upper, "LOW") THEN "LOW"
    ELSE None

\* lines 346-353: the keyword search, most severe level first
KeywordSeverity(text_upper) ==
    IF HasKeyword(text_upper, "CRITICAL") THEN "CRITICAL"
    ELSE IF HasKeyword(text_upper, "HIGH") THEN "HIGH"
    ELSE IF HasKeyword(text_upper, "MEDIUM") THEN "MEDIUM"
    ELSE IF HasKeyword(text_upper, "LOW") THEN "LOW"
    ELSE None

\* ParseSeverity with the keyword search tried before the labelled marker
ParseSeverity_KeywordsFirst(response_text) ==
    IF response_text # <<>> /\ Strip(response_text) # <<>>
    THEN LET text_upper == Upper(response_text)
         IN  IF KeywordSeverity(text_upper) # None
             THEN KeywordSeverity(text_upper)
             ELSE MarkerSeverity(text_upper)
    ELSE None

\* lines 331-353, "Determine severity with enhanced parsing": the keyword
\* search is the elif of "if 'RISK ASSESSMENT:' in text_upper"
ParseSeverity(response_text) ==
    IF response_text # <<>> /\ Strip(response_text) # <<>>
    THEN LET text_upper == Upper(response_text)
         IN  IF HasMarkerPrefix(text_upper)
             THEN MarkerSeverity(text_upper)
             ELSE KeywordSeverity(text_upper)
    ELSE None

\* estimate_tokens on a text of n characters
EstimateTokens(n) == IF n \div 4 >= 1 THEN n \div 4 ELSE 1

-----------------------------------------------------------------------------
(* Cost ledger (src/cost_tracker.py).  Money is kept in integers: rates in  *)
(* nano-dollars per token, costs rounded to 6 decimals in micro-dollars.    *)

\* GEMINI_PRICING, per token, in nano-dollars (0.000075 $ per 1K = 75 n$ per token)
GEMINI_PRICING ==
    [k \in {"gemini-1.5-flash", "gemini-1.5-pro"} |->
        IF k = "gemini-1.5-flash"
        THEN [input_tokens_per_1k |-> 75,   output_tokens_per_1k |-> 300]
        ELSE [input_tokens_per_1k |-> 1250, output_tokens_per_1k |-> 5000]]

\* pricing_key chosen by calculate_cost: the pro key when "pro" occurs in the
\* lower-cased model name, else the flash key (also the default)
PricingKey(model_name) ==
    IF model_name \in {"gemini-1.5-pro", "Gemini-Pro"}
    THEN "gemini-1.5-pro" ELSE "gemini-1.5-flash"

\* round(x, 6) acts on a binary float.  An amount whose exact value lies
\* half-way between two micro-dollars is stored just above or just below the
\* half, and is rounded up or down accordingly.  FloatTiesUp lists the
\* half-way amounts of calculate_cost, as <<pricing_key, part, input_tokens,
\* output_tokens>>, that (tokens / 1000) * rate in double precision rounds up,
\* for token counts 0..12 and 1000; the other half-way amounts there round
\* down.
FloatTiesUp ==
    {<<"gemini-1.5-flash", "total", 4, 4>>, <<"gemini-1.5-flash", "total", 8, 3>>,
     <<"gemini-1.5-flash", "total", 12, 2>>, <<"gemini-1.5-flash", "total", 12, 12>>,
     <<"gemini-1.5-pro", "input", 2, 0>>, <<"gemini-1.5-pro", "total", 2, 0>>,
     <<"gemini-1.5-pro", "total", 2, 1>>, <<"gemini-1.5-pro", "total", 2, 2>>,
     <<"gemini-1.5-pro", "total", 2, 3>>, <<"gemini-1.5-pro", "total", 2, 4>>,
     <<"gemini-1.5-pro", "total", 2, 5>>, <<"gemini-1.5-pro", "total", 2, 6>>,
     <<"gemini-1.5-pro", "total", 2, 7>>, <<"gemini-1.5-pro", "total", 2, 8>>,
     <<"gemini-1.5-pro", "total", 2, 10>>, <<"gemini-1.5-pro", "total", 2, 12>>,
     <<"gemini-1.5-pro", "total", 2, 1000>>, <<"gemini-1.5-pro", "input", 6, 0>>,
     <<"gemini-1.5-pro", "total", 6, 0>>, <<"gemini-1.5-pro", "total", 6, 1>>,
     <<"gemini-1.5-pro", "total", 6, 2>>, <<"gemini-1.5-pro", "total", 6, 3>>,
     <<"gemini-1.5-pro", "total", 6, 4>>, <<"gemini-1.5-pro", "total", 6, 5>>,
     <<"gemini-1.5-pro", "total", 6, 6>>, <<"gemini-1.5-pro", "total", 6, 7>>,
     <<"gemini-1.5-pro", "total", 6, 8>>, <<"gemini-1.5-pro", "total", 6, 10>>,
     <<"gemini-1.5-pro", "total", 6, 11>>, <<"gemini-1.5-pro", "total", 6, 12>>,
     <<"gemini-1.5-pro", "input", 10, 0>>, <<"gemini-1.5-pro", "total", 10, 0>>,
     <<"gemini-1.5-pro", "total", 10, 1>>, <<"gemini-1.5-pro", "total", 10, 2>>,
     <<"gemini-1.5-pro", "total", 10, 3>>, <<"gemini-1.5-pro", "total", 10, 4>>,
     <<"gemini-1.5-pro", "total", 10, 5>>, <<"gemini-1.5-pro", "total", 10, 6>>,
     <<"gemini-1.5-pro", "total", 10, 7>>, <<"gemini-1.5-pro", "total", 10, 8>>,
     <<"gemini-1.5-pro", "total", 10, 10>>, <<"gemini-1.5-pro", "total", 10, 11>>,
     <<"gemini-1.5-pro", "total", 10, 12>>, <<"gemini-1.5-pro", "total", 10, 1000>>}

\* round(x, 6) of an amount of nano-dollars, in micro-dollars
RoundMicro(nano, tie_up) ==
    LET q == nano \div 1000
        r == nano % 1000
    IN  IF r > 500 \/ (r = 500 /\ tie_up) THEN q + 1 ELSE q

\* CostTracker.calculate_cost
CalculateCost(model_name, input_tokens, output_tokens) ==
    LET pricing_key == PricingKey(model_name)
        pricing     == GEMINI_PRICING[pricing_key]
        input_cost  == input_tokens * pricing.input_tokens_per_1k
        output_cost == output_tokens * pricing.output_tokens_per_1k
        total_cost  == input_cost + output_cost
    IN  [model_used      |-> pricing_key,
         input_tokens    |-> input_tokens,
         output_tokens   |-> output_tokens,
         total_tokens    |-> input_tokens + output_tokens,
         input_cost_usd  |-> RoundMicro(input_cost,
                                <<pricing_key, "input", input_tokens, 0>> \in FloatTiesUp),
         output_cost_usd |-> RoundMicro(output_cost,
                                <<pricing_key, "output", 0, output_tokens>> \in FloatTiesUp),
         total_cost_usd  |-> RoundMicro(total_cost,
                                <<pricing_key, "total", input_tokens, output_tokens>>
                                    \in FloatTiesUp)]

\* additional_context left at its default: None.  An empty dict is written
\* the same way, "if additional_context:" (line 80) being false for both.
NoContext == <<>>

\* {**d, **e}: the keys of e come last and replace those of d
Merge(d, e) == e @@ d

\* BuildCostEntry with the keys of the context put into the entry itself
BuildCostEntry_ContextMerged(model_name, input_tokens, output_tokens, request_type, additional_context) ==
    LET cost_info  == CalculateCost(model_name, input_tokens, output_tokens)
        cost_entry == Merge([request_type |-> request_type], cost_info)
    IN  Merge(cost_entry, additional_context)

\* lines 68-81 of log_request_cost: the entry built for a call.  In the dict
\* display of lines 72-78 **cost_info comes last, so its keys replace equal
\* keys written before it; a context that is not None and not empty is
\* stored whole under the one key "context" (lines 80-81).
BuildCostEntry(model_name, input_tokens, output_tokens, request_type, additional_context) ==
    LET cost_info  == CalculateCost(model_name, input_tokens, output_tokens)
        cost_entry == Merge([request_type |-> request_type], cost_info)
    IN  IF additional_context # NoContext
        THEN Merge(cost_entry, [context |-> additional_context])
        ELSE cost_entry

\* the entry the ingest stage logs for a record the engine answered: its
\* log_request_cost call (agent_gemini.py lines 308-320) with the context of
\* lines 314-319
CsvCostEntry(input_tokens, response_text, device_id, function_calls, source) ==
    BuildCostEntry("gemini-1.5-flash", input_tokens, EstimateTokens(CharLen(response_text)),
                   "csv_streaming",
                   [device_id       |-> device_id,
                    function_calls  |-> function_calls,
                    response_length |-> CharLen(response_text),
                    source_file     |-> source])

RECURSIVE SumField(_, _)
\* sum(entry[field] for entry in entries)
SumField(entries, field) ==
    IF entries = <<>> THEN 0
    ELSE Head(entries)[field] + SumField(Tail(entries), field)

\* the half-way quotients <<total, n>> (total in micro-dollars) that the float
\* division total_session_cost / n rounds up, for the ledgers the
\* specifications build; the other half-way quotients there round down
AverageTiesUp ==
    {<<3, 2>>, <<11, 2>>, <<385, 2>>, <<675, 2>>, <<1265, 2>>, <<6251, 2>>,
     <<6325, 2>>, <<6625, 2>>, <<7505, 2>>, <<11255, 2>>}

\* round(total / n, 6) for a total in micro-dollars
RoundDiv(total, n) ==
    LET q == total \div n
        r == total % n
    IN  IF 2 * r > n \/ (2 * r = n /\ <<total, n>> \in AverageTiesUp) THEN q + 1 ELSE q

\* CostTracker.get_session_summary
GetSessionSummary(costs, total) ==
    IF costs = <<>>
    THEN [total_requests |-> 0, total_cost_usd |-> 0, average_cost_per_request |-> 0]
    ELSE [total_requests           |-> Len(costs),
          total_input_tokens       |-> SumField(costs, "input_tokens"),
          total_output_tokens      |-> SumField(costs, "output_tokens"),
          total_tokens             |-> SumField(costs, "input_tokens")
                                         + SumField(costs, "output_tokens"),
          total_cost_usd           |-> total,
          average_cost_per_request |-> RoundDiv(total, Len(costs))]

\* the keys CostTracker.log_session_summary formats into its log line
SummaryKeysLogged ==
    {"total_requests", "total_cost_usd", "average_cost_per_request", "total_tokens"}

\* CostTracker.log_session_summary raises KeyError when a key it formats is
\* missing from the summary
LogSessionSummaryRaises(costs, total) ==
    ~(SummaryKeysLogged \subseteq DOMAIN GetSessionSummary(costs, total))

\* CostTracker.__init__
NewTracker == [session_costs |-> <<>>, total_session_cost |-> 0]

\* get_cost_tracker(agent_name, logger): the tracker of the agent
GetCostTracker(agent_name) == ct_trackers[agent_name]

-----------------------------------------------------------------------------
(* Ingest request: sources, rows, reasoning-engine outcomes *)

Absent == <<>>        \* a key the row does not have

Unknown == <<"unknown">>   \* the default device id 'unknown'

\* one declared source: the number of records after the header row, whether
\* open(source_path) succeeds, and the record whose read raises an error
\* other than StopIteration (csv.Error, UnicodeDecodeError), 0 when none does
SourceSet ==
    {src \in [rows : 0..MaxRows, openable : BOOLEAN, bad_row : 0..MaxRows] :
        /\ src.bad_row <= src.rows
        /\ ~src.openable => src.bad_row = 0}

\* the two-source example of lengths 3 and 5
ExampleSources == <<[rows |-> 3, openable |-> TRUE, bad_row |-> 0],
                    [rows |-> 5, openable |-> TRUE, bad_row |-> 0]>>

\* the non-empty source lists explored; the first failing read ends the
\* stream, so at most one source of a list has a record whose read fails
SourceLists ==
    {srcs \in UNION {[1..n -> SourceSet] : n \in 1..MaxSources} :
        Cardinality({s \in 1..Len(srcs) : srcs[s].bad_row > 0}) <= 1}
    \cup {ExampleSources}

\* The values data.get("csv_paths") and data.get("csv_path") take.  A value
\* has a JSON type and, for a list or a string, the paths it holds; a path
\* is written as the file it names.  "missing" is the None that data.get
\* returns for an absent key (or a JSON null).
Missing == [type |-> "missing", val |-> <<>>]

ListOf(paths) == [type |-> "list", val |-> paths]

\* a string holding one path; StrOf(<<>>) is the empty string
StrOf(path) == [type |-> "str", val |-> path]

OneRow == [rows |-> 1, openable |-> TRUE, bad_row |-> 0]

NoRows == [rows |-> 0, openable |-> TRUE, bad_row |-> 0]

\* the request bodies explored: every source list given as csv_paths alone,
\* and every combination of a missing, empty, wrongly typed and well-formed
\* csv_paths with a missing, empty, wrongly typed and well-formed csv_path
DataSet ==
    [csv_paths : {ListOf(srcs) : srcs \in SourceLists}, csv_path : {Missing}]
    \cup [csv_paths : {Missing, ListOf(<<>>), StrOf(<<NoRows>>), ListOf(<<NoRows>>)},
          csv_path  : {Missing, StrOf(<<>>), ListOf(<<OneRow>>), StrOf(<<OneRow>>)}]

\* Normalise with csv_path taking precedence over csv_paths
Normalise_PathFirst(d) ==
    IF d.csv_path.type = "str" /\ d.csv_path.val # <<>>
    THEN d.csv_path.val
    ELSE IF d.csv_paths.type = "list" /\ d.csv_paths.val # <<>>
    THEN d.csv_paths.val
    ELSE <<>>

\* lines 193-200: the sources list built from the body; <<>> when neither
\* branch applies.  str(p) leaves a path that is a string as it is.
Normalise(d) ==
    IF d.csv_paths.type = "list" /\ d.csv_paths.val # <<>>
    THEN d.csv_paths.val
    ELSE IF d.csv_path.type = "str" /\ d.csv_path.val # <<>>
    THEN d.csv_path.val
    ELSE <<>>

RECURSIVE TotalRows(_)
TotalRows(srcs) ==
    IF srcs = <<>> THEN 0 ELSE Head(srcs).rows + TotalRows(Tail(srcs))

\* the k-th record of source s, as csv.DictReader yields it: the header of
\* a source fixes which of the keys its rows have
RowOf(s, k) ==
    LET shape == (s - 1) % 4
    IN  [Device_ID |-> IF shape \in {0, 3} THEN <<"D", s, k>> ELSE Absent,
         Model     |-> IF shape \in {1, 3} THEN <<"M", s, k>> ELSE Absent,
         Status    |-> IF shape = 2 THEN <<"S", s, k>> ELSE Absent]

\* row.get('Device_ID', row.get('Model', 'unknown'))
DeviceId(row) ==
    IF row.Device_ID # Absent THEN row.Device_ID
    ELSE IF row.Model # Absent THEN row.Model
    ELSE Unknown

\* len(json.dumps({"record": row})) for three-character field values
JsonLen(row) ==
    LET d == IF row.Device_ID # Absent THEN 1 ELSE 0
        m == IF row.Model # Absent THEN 1 ELSE 0
        t == IF row.Status # Absent THEN 1 ELSE 0
        n == d + m + t
    IN  14 + 18 * d + 14 * m + 15 * t + (IF n > 1 THEN 2 * (n - 1) ELSE 0)

\* "if severity in ['MEDIUM', 'HIGH', 'CRITICAL']": consultation required
ForwardRequired(severity) == severity \in {"MEDIUM", "HIGH", "CRITICAL"}

\* a2a_indicators (lines 369-375): the strings whose presence in the final
\* response shows that a downstream report is embedded in it; in a text each
\* is a fragment of its own
A2aIndicators ==
    {"diagnosis_agent:", "Remediation Status:", "Device Type:", "Actions Taken:",
     "Results Summary:"}

\* a2a_detected (line 384)
A2aDetected(response_text) ==
    \E k \in 1..Len(response_text) : response_text[k] \in A2aIndicators

\* what lines 364-389 log for a record: nothing when no consultation is
\* required, the "detected" info line, or the "not detected" warning
GateLog(severity, response_text) ==
    IF ~ForwardRequired(severity) THEN "none"
    ELSE IF A2aDetected(response_text) THEN "detected"
    ELSE "not_detected"

\* the downstream report as the engine embeds it in its final response
EmbeddedReport == <<"RISK ASSESSMENT: ", "HIGH", " ", "diagnosis_agent:", "ok">>

\* response texts the reasoning engine returns in the explored runs
EngineTexts ==
    {<<>>, <<" ">>, <<"ok">>, <<"low">>, <<"MEDIUM">>,
     <<"RISK ASSESSMENT: ", "HIGH">>, <<"MEDIUM", " ", "critical">>}

\* What processing one record meets: the reasoning engine (create_session,
\* run_async) raises, or it returns text parts and function_call parts;
\* cost_raises: the logger raises inside log_request_cost (line 89 of
\* cost_tracker.py, after the entry was appended).  How the engine's run ends
\* does not depend on the downstream calls its sub-agent made during the run:
\* every outcome can follow any number of calls.
EngineRaises == {[kind |-> k, text |-> <<>>, function_calls |-> 0,
                  cost_raises |-> FALSE] :
                     k \in {"session_error", "run_error"}}

FullOutcomes ==
    EngineRaises
    \cup [kind : {"ok"}, text : EngineTexts \cup {EmbeddedReport}, function_calls : {1},
          cost_raises : {FALSE}]
    \cup [kind : {"ok"}, text : {<<"RISK ASSESSMENT: ", "HIGH">>}, function_calls : {1},
          cost_raises : {TRUE}]

BasicOutcomes ==
    {[kind |-> "run_error", text |-> <<>>, function_calls |-> 0,
      cost_raises |-> FALSE],
     [kind |-> "ok", text |-> <<"low">>, function_calls |-> 1,
      cost_raises |-> FALSE]}

EngineOutcomes(srcs) ==
    IF TotalRows(srcs) <= MaxRecordsFull THEN FullOutcomes ELSE BasicOutcomes

NoRecord == [kind |-> "none"]

\* no downstream call made for the record in hand
NoCall == [state |-> "idle", calls |-> 0]

\* the chunks row_generator yields
OpenChunk  == [t |-> "open"]
CommaChunk == [t |-> "comma"]

\* json.dumps of the success event (lines 397-403)
SuccessEvent(n, s, row, response_text, severity) ==
    [t |-> "event", row |-> n, source |-> s, device_id |-> DeviceId(row),
     response |-> response_text, severity |-> severity]

\* ErrorEvent with the device id left at its default
ErrorEvent_NoDeviceId(n, s, row, e) ==
    [t |-> "error", row |-> n, source |-> s, device_id |-> Unknown,
     error |-> e]

\* json.dumps of the error event (lines 412-417)
ErrorEvent(n, s, row, e) ==
    [t |-> "error", row |-> n, source |-> s, device_id |-> DeviceId(row),
     error |-> e]

\* the closing section (line 433)
CloseChunk(counts, summary) ==
    [t |-> "close", severity_counts |-> counts, cost_summary |-> summary,
     status |-> "completed"]

ZeroCounts == [l \in {"LOW", "MEDIUM", "HIGH", "CRITICAL"} |-> 0]

\* CountSeverity putting a null severity into the LOW bucket
CountSeverity_NullAsLow(counts, severity) ==
    IF severity \in DOMAIN counts
    THEN [counts EXCEPT ![severity] = @ + 1]
    ELSE [counts EXCEPT !["LOW"] = @ + 1]

\* "if severity in severity_counts: severity_counts[severity] += 1"
CountSeverity(counts, severity) ==
    IF severity \in DOMAIN counts
    THEN [counts EXCEPT ![severity] = @ + 1]
    ELSE counts

RECURSIVE PopAll(_, _)
\* "for i in reversed(readers_to_remove): readers.pop(i)"
PopAll(rs, remove) ==
    IF remove = <<>> THEN rs
    ELSE LET k == remove[Len(remove)]
         IN  PopAll(SubSeq(rs, 1, k - 1) \o SubSeq(rs, k + 1, Len(rs)),
                    SubSeq(remove, 1, Len(remove) - 1))

-----------------------------------------------------------------------------
(* stream_csv_endpoint and its row_generator                               *)
(* (src/machine1_log_analysis/agent_gemini.py, lines 186-439)              *)

StreamInit ==
    /\ data \in DataSet
    /\ sources = <<>>
    /\ pc = "request"
    /\ http_status = 0
    /\ chunks = <<>>
    /\ row_count = 0
    /\ first = TRUE
    /\ file_handles = <<>>
    /\ open_handles = {}
    /\ readers = <<>>
    /\ i = 1
    /\ readers_to_remove = <<>>
    /\ cursor = <<>>
    /\ cur = NoRecord
    /\ downstream = NoCall
    /\ severity_counts = ZeroCounts
    /\ session_costs = <<>>
    /\ total_session_cost = 0
    /\ reads = <<>>
    /\ engine_log = <<>>

\* the values the other components' variables keep while one is explored
ClassIdle == cl_text = <<>> /\ cl_sev = "unset"

ProcIdle ==
    /\ pr_pc = <<>>
    /\ pr_rows = <<>>
    /\ pr_row_count = <<>>
    /\ pr_counts = <<>>
    /\ pr_doc = <<>>
    /\ pr_cur = <<>>
    /\ pr_tracker = <<>>

MwIdle ==
    /\ tool_counter = 0
    /\ mw_pc = <<>>
    /\ mw_method = <<>>
    /\ mw_invoked = <<>>
    /\ mw_tool_count = <<>>
    /\ mw_stage = "none"
    /\ mw_outcome = <<>>
    /\ mw_input_tokens = <<>>
    /\ mw_cost_error = <<>>
    /\ mw_handler = <<>>
    /\ mw_returned = <<>>

\* lines 188-204 and 435: the source list is normalised; without a source
\* the JSON error is returned with status 400, else severity_counts is
\* created and the StreamingResponse over row_generator() is returned
StreamCsvEndpoint ==
    /\ pc = "request"
    /\ sources' = Normalise(data)
    /\ IF Normalise(data) = <<>>
       THEN /\ http_status' = 400
            /\ pc' = "rejected"
            /\ UNCHANGED severity_counts
       ELSE /\ severity_counts' = ZeroCounts
            /\ http_status' = 200
            /\ pc' = "start"
    /\ UNCHANGED <<data, chunks, row_count, first, file_handles, open_handles,
                   readers, i, readers_to_remove, cursor, cur, downstream,
                   session_costs, total_session_cost, reads, engine_log>>

\* lines 207-209: the generator starts and yields the opening marker
YieldOpen ==
    /\ pc = "start"
    /\ row_count' = 0
    /\ chunks' = Append(chunks, OpenChunk)
    /\ first' = TRUE
    /\ pc' = "open_files"
    /\ UNCHANGED <<data, sources, http_status, file_handles, open_handles, readers, i,
                   readers_to_remove, cursor, cur, severity_counts, session_costs,
                   total_session_cost, reads, engine_log,
                   downstream>>

\* the sources opened before the first open() that raises
OpenedPrefix(srcs) ==
    IF \E s \in 1..Len(srcs) : ~srcs[s].openable
    THEN LET bad == CHOOSE s \in 1..Len(srcs) :
                        ~srcs[s].openable /\ \A q \in 1..(s - 1) : srcs[q].openable
         IN  [s \in 1..(bad - 1) |-> s]
    ELSE [s \in 1..Len(srcs) |-> s]

\* lines 211-218: every source is opened, in list order, outside the try;
\* an open() that raises leaves the generator with the exception
OpenFiles ==
    /\ pc = "open_files"
    /\ file_handles' = OpenedPrefix(sources)
    /\ open_handles' = {file_handles'[k] : k \in 1..Len(file_handles')}
    /\ readers' = OpenedPrefix(sources)
    /\ cursor' = [s \in 1..Len(sources) |-> 0]
    /\ pc' = IF Len(OpenedPrefix(sources)) = Len(sources) THEN "while" ELSE "raised_open"
    /\ UNCHANGED <<data, sources, http_status, chunks, row_count, first, i,
                   readers_to_remove, cur, severity_counts, session_costs,
                   total_session_cost, reads, engine_log,
                   downstream>>

\* lines 222-224: "while readers:" starts a pass; lines 423-426: when no
\* reader is left the finally block closes every handle
WhileReaders ==
    /\ pc = "while"
    /\ IF readers # <<>>
       THEN /\ readers_to_remove' = <<>>
            /\ i' = 1
            /\ pc' = "for"
            /\ UNCHANGED open_handles
       ELSE /\ open_handles' = open_handles \ {file_handles[k] : k \in 1..Len(file_handles)}
            /\ pc' = "summary"
            /\ UNCHANGED <<readers_to_remove, i>>
    /\ UNCHANGED <<data, sources, http_status, chunks, row_count, first, file_handles,
                   readers, cursor, cur, severity_counts, session_costs,
                   total_session_cost, reads, engine_log,
                   downstream>>

\* lines 226-246: the next reader of the pass is asked for a row; only
\* StopIteration is caught there, any other error of next(reader) leaves the
\* generator through the finally block (lines 423-426), which closes the
\* handles; lines 419-421: after the last reader the exhausted ones are popped
NextRow ==
    /\ pc = "for"
    /\ IF i > Len(readers)
       THEN /\ readers' = PopAll(readers, readers_to_remove)
            /\ pc' = "while"
            /\ UNCHANGED <<row_count, cursor, cur, reads, readers_to_remove, i,
                           open_handles>>
       ELSE LET s == readers[i]
            IN  IF cursor[s] < sources[s].rows /\ sources[s].bad_row = cursor[s] + 1
                THEN /\ cur' = [kind |-> "read_error", source |-> s]
                     /\ open_handles' = open_handles
                            \ {file_handles[k] : k \in 1..Len(file_handles)}
                     /\ pc' = "raised_read"
                     /\ UNCHANGED <<readers, row_count, cursor, reads,
                                    readers_to_remove, i>>
                ELSE IF cursor[s] < sources[s].rows
                THEN /\ cursor' = [cursor EXCEPT ![s] = @ + 1]
                     /\ row_count' = row_count + 1
                     /\ cur' = [kind |-> "read", source |-> s,
                                row |-> RowOf(s, cursor[s] + 1)]
                     /\ reads' = Append(reads, <<s, cursor[s] + 1>>)
                     /\ pc' = "execute"
                     /\ UNCHANGED <<readers, readers_to_remove, i, open_handles>>
                ELSE /\ readers_to_remove' = Append(readers_to_remove, i)
                     /\ i' = i + 1
                     /\ UNCHANGED <<readers, row_count, cursor, cur, reads, pc,
                                    open_handles>>
    /\ UNCHANGED <<data, sources, http_status, chunks, first, file_handles,
                   severity_counts, session_costs, total_session_cost, engine_log,
                   downstream>>

\* lines 248-392 and 407-408: one record through the reasoning engine.  The
\* engine raises (the except clause takes over) or returns; then the cost is
\* logged, the severity parsed and counted.  log_request_cost is called
\* inside the same try: when it raises, the except clause takes over too.
\* The "async for" over run_async (lines 277-288) ends only when the engine's
\* run has ended, which it cannot while a call of its sub-agent is pending.
Execute(o) ==
    /\ pc = "execute"
    /\ downstream.state # "pending"
    /\ downstream' = NoCall
    /\ IF o.kind = "ok"
       THEN LET llm_input_len   == JsonLen(cur.row)
                input_tokens    == EstimateTokens(llm_input_len)
                cost_entry      == CsvCostEntry(input_tokens, o.text, DeviceId(cur.row),
                                                o.function_calls, cur.source)
                severity        == ParseSeverity(o.text)
            IN  /\ session_costs' = Append(session_costs, cost_entry)
                /\ total_session_cost' = total_session_cost + cost_entry.total_cost_usd
                /\ IF o.cost_raises
                   THEN /\ cur' = [kind |-> "error", source |-> cur.source,
                                   row |-> cur.row, error |-> "cost_error"]
                        /\ UNCHANGED severity_counts
                   ELSE /\ severity_counts' = CountSeverity(severity_counts, severity)
                        /\ cur' = [kind |-> "ok", source |-> cur.source,
                                   row |-> cur.row, response |-> o.text,
                                   severity |-> severity]
                /\ engine_log' = Append(engine_log,
                                        [row |-> row_count, raised |-> FALSE,
                                         severity |-> IF o.cost_raises THEN None
                                                      ELSE severity,
                                         a2a_calls |-> downstream.calls,
                                         text |-> o.text,
                                         function_calls |-> o.function_calls,
                                         gate |-> IF o.cost_raises THEN "none"
                                                  ELSE GateLog(severity, o.text)])
       ELSE /\ cur' = [kind |-> "error", source |-> cur.source, row |-> cur.row,
                       error |-> o.kind]
            /\ engine_log' = Append(engine_log,
                                    [row |-> row_count, raised |-> TRUE,
                                     severity |-> None,
                                     a2a_calls |-> downstream.calls,
                                     text |-> o.text,
                                     function_calls |-> o.function_calls,
                                     gate |-> "none"])
            /\ UNCHANGED <<session_costs, total_session_cost, severity_counts>>
    /\ pc' = IF first THEN "event" ELSE "separator"
    /\ UNCHANGED <<data, sources, http_status, chunks, row_count, first, file_handles,
                   open_handles, readers, i, readers_to_remove, cursor, reads>>

\* lines 394-395 and 409-410: "if not first: yield ','"
YieldSeparator ==
    /\ pc = "separator"
    /\ chunks' = Append(chunks, CommaChunk)
    /\ pc' = "event"
    /\ UNCHANGED <<data, sources, http_status, row_count, first, file_handles,
                   open_handles, readers, i, readers_to_remove, cursor, cur,
                   severity_counts, session_costs, total_session_cost, reads,
                   engine_log,
                   downstream>>

\* EventOf numbering a record by its position in its own source
EventOf_RowPerSource(n, c) ==
    IF c.kind = "ok"
    THEN SuccessEvent(cursor[c.source], c.source, c.row, c.response, c.severity)
    ELSE ErrorEvent(cursor[c.source], c.source, c.row, c.error)

\* the event of the record in cur
EventOf(n, c) ==
    IF c.kind = "ok"
    THEN SuccessEvent(n, c.source, c.row, c.response, c.severity)
    ELSE ErrorEvent(n, c.source, c.row, c.error)

\* YieldEvent with the except clause yielding nothing for a failed record
YieldEvent_DropsErrors ==
    /\ pc = "event"
    /\ first' = FALSE
    /\ chunks' = IF cur.kind = "error" THEN chunks
                 ELSE Append(chunks, EventOf(row_count, cur))
    /\ cur' = NoRecord
    /\ i' = i + 1
    /\ pc' = "for"
    /\ UNCHANGED <<data, sources, http_status, row_count, file_handles, open_handles,
                   readers, readers_to_remove, cursor, severity_counts,
                   session_costs, total_session_cost, reads, engine_log,
                   downstream>>

\* YieldEvent with the loop staying on the reader it just read from
YieldEvent_StaysOnReader ==
    /\ pc = "event"
    /\ first' = FALSE
    /\ chunks' = Append(chunks, EventOf(row_count, cur))
    /\ cur' = NoRecord
    /\ i' = i
    /\ pc' = "for"
    /\ UNCHANGED <<data, sources, http_status, row_count, file_handles, open_handles,
                   readers, readers_to_remove, cursor, severity_counts,
                   session_costs, total_session_cost, reads, engine_log,
                   downstream>>

\* YieldEvent without "first = False"
YieldEvent_KeepsFirst ==
    /\ pc = "event"
    /\ first' = first
    /\ chunks' = Append(chunks, EventOf(row_count, cur))
    /\ cur' = NoRecord
    /\ i' = i + 1
    /\ pc' = "for"
    /\ UNCHANGED <<data, sources, http_status, row_count, file_handles, open_handles,
                   readers, readers_to_remove, cursor, severity_counts,
                   session_costs, total_session_cost, reads, engine_log,
                   downstream>>

\* lines 396-405 and 411-417: the record's event is yielded and the for loop
\* moves to the next reader
YieldEvent ==
    /\ pc = "event"
    /\ first' = FALSE
    /\ chunks' = Append(chunks, EventOf(row_count, cur))
    /\ cur' = NoRecord
    /\ i' = i + 1
    /\ pc' = "for"
    /\ UNCHANGED <<data, sources, http_status, row_count, file_handles, open_handles,
                   readers, readers_to_remove, cursor, severity_counts,
                   session_costs, total_session_cost, reads, engine_log,
                   downstream>>

\* lines 428-433: the session summary is logged and the closing section is
\* yielded; log_session_summary raising leaves the generator with the error
YieldClose ==
    /\ pc = "summary"
    /\ IF LogSessionSummaryRaises(session_costs, total_session_cost)
       THEN /\ pc' = "raised_summary"
            /\ UNCHANGED chunks
       ELSE /\ chunks' = Append(chunks,
                                CloseChunk(severity_counts,
                                           GetSessionSummary(session_costs,
                                                             total_session_cost)))
            /\ pc' = "done"
    /\ UNCHANGED <<data, sources, http_status, row_count, first, file_handles,
                   open_handles, readers, i, readers_to_remove, cursor, cur,
                   severity_counts, session_costs, total_session_cost, reads,
                   engine_log,
                   downstream>>

\* inside run_async (lines 277-279): the engine hands the record to its
\* diagnosis_agent sub-agent (lines 75-78, 90), which calls the diagnosis
\* stage.  Whether and how often it does so for a record is the engine's
\* choice; nothing in the stage's code limits it.  The runs explored make up
\* to MaxA2aCalls calls for a record, in requests of at most
\* MaxRecordsForward records.
EngineForwards ==
    /\ pc = "execute"
    /\ downstream.state \in {"idle", "answered"}
    /\ downstream.calls < MaxA2aCalls
    /\ TotalRows(sources) <= MaxRecordsForward
    /\ downstream' = [state |-> "pending", calls |-> downstream.calls + 1]
    /\ UNCHANGED <<data, sources, pc, http_status, chunks, row_count, first,
                   file_handles, open_handles, readers, i, readers_to_remove,
                   cursor, cur, severity_counts, session_costs,
                   total_session_cost, reads, engine_log>>

\* the sub-agent's call returns, with the answer of the diagnosis stage or
\* with the failure of the call; run_async goes on
DownstreamAnswers ==
    /\ pc = "execute"
    /\ downstream.state = "pending"
    /\ downstream' = [downstream EXCEPT !.state = "answered"]
    /\ UNCHANGED <<data, sources, pc, http_status, chunks, row_count, first,
                   file_handles, open_handles, readers, i, readers_to_remove,
                   cursor, cur, severity_counts, session_costs,
                   total_session_cost, reads, engine_log>>

\* the cost_tracker module's variables while another component is explored
CostIdle == ct_trackers = <<>> /\ ct_calls = <<>> /\ ct_summaries = <<>>

\* the event has been yielded and the generator waits in that yield
\* (lines 396-405): the reader at i - 1 is the one that gave the record
AfterEventYield ==
    /\ pc = "for"
    /\ i > 1
    /\ chunks # <<>>
    /\ chunks[Len(chunks)].t \in {"event", "error"}
    /\ IF readers_to_remove = <<>> THEN TRUE
       ELSE readers_to_remove[Len(readers_to_remove)] # i - 1

\* The consumer abandons the stream while the generator is suspended: in the
\* yield of the opening marker (line 208, no file opened yet), in an await of
\* the engine (lines 250, 277), or in the yield of a separator or an event.
\* GeneratorExit or CancelledError is raised there; no except clause catches
\* it; inside the try the finally block (lines 423-426) closes the handles.
Abandon ==
    /\ \/ pc = "open_files"
       \/ pc = "execute"
       \/ pc = "event" /\ ~first
       \/ AfterEventYield
    /\ open_handles' = IF pc = "open_files" THEN open_handles
                       ELSE open_handles \ {file_handles[k] : k \in 1..Len(file_handles)}
    /\ pc' = "abandoned"
    /\ UNCHANGED <<data, sources, http_status, chunks, row_count, first, file_handles,
                   readers, i, readers_to_remove, cursor, cur, severity_counts,
                   session_costs, total_session_cost, reads, engine_log,
                   downstream>>

Init == StreamInit /\ ClassIdle /\ MwIdle /\ CostIdle /\ ProcIdle

Next ==
    \/ (StreamCsvEndpoint /\ UNCHANGED <<classVars, mwVars, costVars, procVars>>)
    \/ (YieldOpen /\ UNCHANGED <<classVars, mwVars, costVars, procVars>>)
    \/ (OpenFiles /\ UNCHANGED <<classVars, mwVars, costVars, procVars>>)
    \/ (WhileReaders /\ UNCHANGED <<classVars, mwVars, costVars, procVars>>)
    \/ (NextRow /\ UNCHANGED <<classVars, mwVars, costVars, procVars>>)
    \/ (\E o \in EngineOutcomes(sources) : Execute(o)
                                          /\ UNCHANGED <<classVars, mwVars, costVars, procVars>>)
    \/ (EngineForwards /\ UNCHANGED <<classVars, mwVars, costVars, procVars>>)
    \/ (DownstreamAnswers /\ UNCHANGED <<classVars, mwVars, costVars, procVars>>)
    \/ (YieldSeparator /\ UNCHANGED <<classVars, mwVars, costVars, procVars>>)
    \/ (YieldEvent /\ UNCHANGED <<classVars, mwVars, costVars, procVars>>)
    \/ (YieldClose /\ UNCHANGED <<classVars, mwVars, costVars, procVars>>)
    \/ (Abandon /\ UNCHANGED <<classVars, mwVars, costVars, procVars>>)

Spec == Init /\ [][Next]_vars

-----------------------------------------------------------------------------
(* The severity parsing applied to every text of at most MaxTextLen fragments *)

Texts == UNION {[1..n -> Fragments] : n \in 0..MaxTextLen}

ClassifyInit ==
    /\ cl_text \in Texts
    /\ cl_sev = "unset"

\* the values the ingest variables keep while another component is explored
StreamIdle ==
    /\ data = [csv_paths |-> Missing, csv_path |-> Missing]
    /\ sources = <<>>
    /\ pc = "idle"
    /\ http_status = 0
    /\ chunks = <<>>
    /\ row_count = 0
    /\ first = TRUE
    /\ file_handles = <<>>
    /\ open_handles = {}
    /\ readers = <<>>
    /\ i = 1
    /\ readers_to_remove = <<>>
    /\ cursor = <<>>
    /\ cur = NoRecord
    /\ downstream = NoCall
    /\ severity_counts = ZeroCounts
    /\ session_costs = <<>>
    /\ total_session_cost = 0
    /\ reads = <<>>
    /\ engine_log = <<>>

\* lines 331-353 run on cl_text
Classify ==
    /\ cl_sev = "unset"
    /\ cl_sev' = ParseSeverity(cl_text)
    /\ UNCHANGED <<cl_text, streamVars, mwVars, costVars, procVars>>

InitClassify == StreamIdle /\ ClassifyInit /\ MwIdle /\ CostIdle /\ ProcIdle

NextClassify == Classify

SpecClassify == InitClassify /\ [][NextClassify]_vars

-----------------------------------------------------------------------------
(* log_requests, the HTTP middleware of the diagnosis and remediation      *)
(* stages, and the module-global tool-call counter                         *)
(* (src/machine2_diagnosis/agent_gemini.py lines 187-259, tools.py 9-21;   *)
(*  src/machine3_remediation/agent_gemini.py lines 188-263, tools.py 19-34)*)
(* Each request runs log_requests in its own task of the event loop; the   *)
(* tasks interleave at the awaits (request.body(), call_next).             *)

Requests == 1..MaxRequests

Methods == {"GET", "POST"}

\* tools.reset_tool_call_counter
ResetToolCallCounter(counter) == 0

\* tools._mark_tool_called / tools._increment_tool_counter
MarkToolCalled(counter) == counter + 1

\* tools.get_tool_call_counter
GetToolCallCounter(counter) == counter

Stages == {"diagnosis", "remediation"}

\* the tool execution summary log_requests writes before it returns the
\* response: "complete" is the info line of a full execution, "partial" the
\* partial-execution warning, "missed" the warning that no tool was called,
\* "none" no line at all
ToolExecutionSummary(stage, method, tool_count) ==
    IF method # "POST" THEN "none"
    ELSE IF stage = "diagnosis"
    THEN IF tool_count >= 4 THEN "complete"
         ELSE IF tool_count >= 3 THEN "partial"
         ELSE IF tool_count > 0 THEN "partial"
         ELSE "none"
    ELSE IF tool_count >= 1 THEN "complete"
         ELSE IF tool_count = 0 THEN "missed"
         ELSE "none"

\* the agent name under which a stage gets its cost tracker
StageAgent(stage) ==
    IF stage = "diagnosis" THEN "diagnosis_agent" ELSE "remediation_agent"

\* len(request_body) of the POST bodies explored; 0 is the empty body
BodyLengths == {0, 3, 8}

\* estimated_input_tokens (lines 198-207): the initial 0 is kept for an empty
\* body, else estimate_tokens(request_body)
BodyTokens(body_len) == IF body_len > 0 THEN EstimateTokens(body_len) ELSE 0

\* the responses the downstream handler produces, with their response_size
\* (lines 223-227); size 0 also stands for a response with neither a body nor
\* a content attribute
Responses == {[status |-> 200, size |-> 8], [status |-> 500, size |-> 0]}

NoResponse == [status |-> 0, size |-> 0]

\* Returned withholding the response of a request that ran no tool or whose
\* cost tracking raised
Returned_Gated(response, tool_count, cost_raised) ==
    IF tool_count = 0 \/ cost_raised THEN [status |-> 503, size |-> 0] ELSE response

\* "return response" (line 259): the object call_next returned
Returned(response, tool_count, cost_raised) == response

TelemetryInit ==
    /\ tool_counter = 0
    /\ mw_pc = [r \in Requests |-> "idle"]
    /\ mw_method = [r \in Requests |-> "none"]
    /\ mw_invoked = [r \in Requests |-> 0]
    /\ mw_tool_count = [r \in Requests |-> 0]
    /\ mw_stage \in Stages
    /\ mw_outcome = [r \in Requests |-> "unset"]
    /\ mw_input_tokens = [r \in Requests |-> 0]
    /\ mw_cost_error = [r \in Requests |-> FALSE]
    /\ mw_handler = [r \in Requests |-> NoResponse]
    /\ mw_returned = [r \in Requests |-> NoResponse]
    /\ ct_trackers = [a \in {StageAgent(mw_stage)} |-> NewTracker]
    /\ ct_calls = <<>>
    /\ ct_summaries = <<>>

\* lines 188-199: a request enters the middleware, which resets the counter
MwArrive(r, method) ==
    /\ mw_pc[r] = "idle"
    /\ tool_counter' = ResetToolCallCounter(tool_counter)
    /\ mw_method' = [mw_method EXCEPT ![r] = method]
    /\ mw_input_tokens' = [mw_input_tokens EXCEPT ![r] = 0]
    /\ mw_pc' = [mw_pc EXCEPT ![r] = IF method = "POST" THEN "body" ELSE "call_next"]
    /\ UNCHANGED <<mw_invoked, mw_tool_count, mw_stage, mw_outcome, mw_cost_error,
                   mw_handler, mw_returned, streamVars, classVars, costVars, procVars>>

\* lines 201-212: "body = await request.body()" returns and the input
\* tokens are estimated from it
MwBody(r, body_len) ==
    /\ mw_pc[r] = "body"
    /\ mw_input_tokens' = [mw_input_tokens EXCEPT ![r] = BodyTokens(body_len)]
    /\ mw_pc' = [mw_pc EXCEPT ![r] = "call_next"]
    /\ UNCHANGED <<tool_counter, mw_method, mw_invoked, mw_tool_count,
                   mw_stage, mw_outcome, mw_cost_error, mw_handler, mw_returned,
                   streamVars, classVars, costVars, procVars>>

\* inside "await call_next(request)": the agent serving a POST runs one tool
\* function, which marks itself called
MwToolCall(r) ==
    /\ mw_pc[r] = "call_next"
    /\ mw_method[r] = "POST"
    /\ mw_invoked[r] < MaxToolCalls
    /\ tool_counter' = MarkToolCalled(tool_counter)
    /\ mw_invoked' = [mw_invoked EXCEPT ![r] = @ + 1]
    /\ UNCHANGED <<mw_pc, mw_method, mw_tool_count, mw_stage, mw_outcome,
                   mw_input_tokens, mw_cost_error, mw_handler, mw_returned,
                   streamVars, classVars, costVars, procVars>>

\* str(request.url.path) of request r: each request has a path of its own
RequestPath(r) == <<"/r", r>>

\* the additional_context of the middleware's log_request_cost call (machine2
\* lines 238-242; machine3 lines 241-246, with one key more)
MwContext(stage, tool_count, r, response_size) ==
    IF stage = "diagnosis"
    THEN [tool_calls |-> tool_count, request_path |-> RequestPath(r),
          response_size |-> response_size]
    ELSE [tool_calls |-> tool_count, request_path |-> RequestPath(r),
          response_size |-> response_size,
          remediation_functions_called |-> tool_count]

\* lines 215-259: call_next returns the response, the counter is read, the
\* cost of the request is logged inside a try whose except clause only
\* warns (cost_raises: the logger raises inside log_request_cost, after the
\* entry was appended), the tool execution summary is logged and the
\* response is returned
MwResponse(r, response, cost_raises) ==
    LET agent_name    == StageAgent(mw_stage)
        tracker       == GetCostTracker(agent_name)
        output_tokens == EstimateTokens(response.size)
        tool_count    == GetToolCallCounter(tool_counter)
        cost_entry    == BuildCostEntry("gemini-1.5-pro", mw_input_tokens[r], output_tokens,
                                        IF mw_stage = "diagnosis" THEN "a2a_diagnosis"
                                        ELSE "a2a_remediation",
                                        MwContext(mw_stage, tool_count, r, response.size))
    IN  /\ mw_pc[r] = "call_next"
        /\ mw_handler' = [mw_handler EXCEPT ![r] = response]
        /\ mw_returned' = [mw_returned EXCEPT ![r] =
                              Returned(response, GetToolCallCounter(tool_counter),
                                       cost_raises)]
        /\ mw_tool_count' = [mw_tool_count EXCEPT ![r] = GetToolCallCounter(tool_counter)]
        /\ ct_trackers' = [ct_trackers EXCEPT ![agent_name] =
               [session_costs      |-> Append(tracker.session_costs, cost_entry),
                total_session_cost |-> tracker.total_session_cost
                                          + cost_entry.total_cost_usd]]
        /\ mw_cost_error' = [mw_cost_error EXCEPT ![r] = cost_raises]
        /\ mw_outcome' = [mw_outcome EXCEPT ![r] =
                             ToolExecutionSummary(mw_stage, mw_method[r],
                                                  GetToolCallCounter(tool_counter))]
        /\ mw_pc' = [mw_pc EXCEPT ![r] = "responded"]
        /\ UNCHANGED <<tool_counter, mw_method, mw_invoked, mw_stage, mw_input_tokens,
                       ct_calls, ct_summaries, streamVars, classVars, procVars>>

InitTelemetry == StreamIdle /\ ClassIdle /\ TelemetryInit /\ ProcIdle

NextTelemetry ==
    \/ \E r \in Requests, m \in Methods : MwArrive(r, m)
    \/ \E r \in Requests, n \in BodyLengths : MwBody(r, n)
    \/ \E r \in Requests : MwToolCall(r)
    \/ \E r \in Requests, k \in Responses, e \in BOOLEAN : MwResponse(r, k, e)

SpecTelemetry == InitTelemetry /\ [][NextTelemetry]_vars

\* one request taken through log_requests on its own, no other request in
\* flight at the stage
NextOneRequest ==
    \/ \E m \in Methods : MwArrive(1, m)
    \/ \E n \in BodyLengths : MwBody(1, n)
    \/ MwToolCall(1)
    \/ \E k \in Responses, e \in BOOLEAN : MwResponse(1, k, e)

SpecOneRequest == InitTelemetry /\ [][NextOneRequest]_vars

-----------------------------------------------------------------------------
(* The cost_tracker module used on its own: get_cost_tracker, log_request_cost *)
(* and get_session_summary called in any order on the trackers of two agents   *)
(* (src/cost_tracker.py)                                                       *)

Agents == {"log_analysis_agent", "diagnosis_agent"}

ModelNames == {"gemini-1.5-flash", "gemini-1.5-pro"}

RequestTypes == {"standard", "csv_streaming"}

\* the context passed with each request type: none with the default type, and
\* with "csv_streaming" a dict one of whose keys, total_cost_usd, is also a
\* key of the entry
ContextOf(request_type) ==
    IF request_type = "standard" THEN NoContext
    ELSE [function_calls |-> 1, total_cost_usd |-> 5]

\* the token counts passed to log_request_cost
InputTokenCounts  == {4, 1000}
OutputTokenCounts == {1, 1000}

CostInit ==
    /\ ct_trackers = [a \in Agents |-> NewTracker]
    /\ ct_calls = <<>>
    /\ ct_summaries = <<>>

\* LogRequestCost putting the new entry in front of the earlier ones
LogRequestCost_Prepends(agent_name, model_name, input_tokens, output_tokens, request_type, additional_context) ==
    LET tracker    == GetCostTracker(agent_name)
        cost_entry == BuildCostEntry(model_name, input_tokens, output_tokens,
                                     request_type, additional_context)
    IN  /\ Len(ct_calls) < MaxCalls
        /\ ct_trackers' = [ct_trackers EXCEPT ![agent_name] =
               [session_costs      |-> <<cost_entry>> \o tracker.session_costs,
                total_session_cost |-> tracker.total_session_cost
                                          + cost_entry.total_cost_usd]]
        /\ ct_calls' = Append(ct_calls,
                              [agent_name    |-> agent_name,
                               model_name    |-> model_name,
                               input_tokens  |-> input_tokens,
                               output_tokens |-> output_tokens,
                               request_type  |-> request_type,
                               additional_context |-> additional_context,
                               ledger_before |-> Len(tracker.session_costs),
                               cost_entry    |-> cost_entry])
        /\ ct_summaries' = <<>>
        /\ UNCHANGED <<streamVars, classVars, mwVars, procVars>>

\* CostTracker.log_request_cost on the tracker of agent_name
LogRequestCost(agent_name, model_name, input_tokens, output_tokens, request_type, additional_context) ==
    LET tracker    == GetCostTracker(agent_name)
        cost_entry == BuildCostEntry(model_name, input_tokens, output_tokens,
                                     request_type, additional_context)
    IN  /\ Len(ct_calls) < MaxCalls
        /\ ct_trackers' = [ct_trackers EXCEPT ![agent_name] =
               [session_costs      |-> Append(tracker.session_costs, cost_entry),
                total_session_cost |-> tracker.total_session_cost
                                          + cost_entry.total_cost_usd]]
        /\ ct_calls' = Append(ct_calls,
                              [agent_name    |-> agent_name,
                               model_name    |-> model_name,
                               input_tokens  |-> input_tokens,
                               output_tokens |-> output_tokens,
                               request_type  |-> request_type,
                               additional_context |-> additional_context,
                               ledger_before |-> Len(tracker.session_costs),
                               cost_entry    |-> cost_entry])
        /\ ct_summaries' = <<>>
        /\ UNCHANGED <<streamVars, classVars, mwVars, procVars>>

\* QuerySessionSummary emptying the ledger it has summarised
QuerySessionSummary_Drains(agent_name) ==
    LET tracker == GetCostTracker(agent_name)
    IN  /\ Len(ct_summaries) < MaxSummaries
        /\ ct_summaries' = Append(ct_summaries,
                                  [agent_name |-> agent_name,
                                   summary    |-> GetSessionSummary(
                                                     tracker.session_costs,
                                                     tracker.total_session_cost)])
        /\ ct_trackers' = [ct_trackers EXCEPT ![agent_name] = NewTracker]
        /\ UNCHANGED <<ct_calls, streamVars, classVars, mwVars, procVars>>

\* CostTracker.get_session_summary on the tracker of agent_name
QuerySessionSummary(agent_name) ==
    LET tracker == GetCostTracker(agent_name)
    IN  /\ Len(ct_summaries) < MaxSummaries
        /\ ct_summaries' = Append(ct_summaries,
                                  [agent_name |-> agent_name,
                                   summary    |-> GetSessionSummary(
                                                     tracker.session_costs,
                                                     tracker.total_session_cost)])
        /\ UNCHANGED <<ct_trackers, ct_calls, streamVars, classVars, mwVars, procVars>>

InitCost == StreamIdle /\ ClassIdle /\ MwIdle /\ CostInit /\ ProcIdle

NextCost ==
    \/ \E a \in Agents, m \in ModelNames, n \in InputTokenCounts,
          k \in OutputTokenCounts, t \in RequestTypes :
              LogRequestCost(a, m, n, k, t, ContextOf(t))
    \/ \E a \in Agents : QuerySessionSummary(a)

SpecCost == InitCost /\ [][NextCost]_vars

-----------------------------------------------------------------------------
(* Two ingest requests handled by one intake process.  Each request runs     *)
(* stream_csv_endpoint and its own row_generator; both use the tracker that  *)
(* get_cost_tracker("log_analysis_agent") returns (cost_tracker.py 140-147,  *)
(* agent_gemini.py 109-110).  The generators run in one event loop: a        *)
(* generator gives way only where it is suspended, in the awaits of the      *)
(* engine (lines 250, 277) and in its yields (lines 208, 394-405, 433); what *)
(* lies between two such points runs without interruption.  For a record    *)
(* that is not the first of its request the generator is suspended in the    *)
(* yield of the separator (lines 395, 410) with the cost already logged and  *)
(* the severity counted, and the event is yielded when it is resumed.        *)

\* the ingest requests of the process
IngestRequests == {1, 2}

\* what the engine does with a record in these runs
ProcessOutcomes ==
    {o \in FullOutcomes :
        /\ ~o.cost_raises
        /\ o.kind = "run_error" \/ o.text \in {<<"low">>, <<"MEDIUM">>}}

\* the k-th record of the one source of request r
ProcRow(r, k) == RowOf(r, k)

\* estimate_tokens(llm_input) for the records of request r (lines 262-263)
ProcInputTokens(r) == EstimateTokens(JsonLen(ProcRow(r, 1)))

\* Logged losing the entry when another generator is suspended in the engine
Logged_LosesConcurrent(tracker, cost_entry) ==
    IF Cardinality({q \in IngestRequests : pr_pc[q] = "engine"}) > 1
    THEN tracker
    ELSE [session_costs      |-> Append(tracker.session_costs, cost_entry),
          total_session_cost |-> tracker.total_session_cost
                                    + cost_entry.total_cost_usd]

\* cost_tracker.py lines 84-85: the tracker after log_request_cost has
\* appended the entry and added its cost
Logged(tracker, cost_entry) ==
    [session_costs      |-> Append(tracker.session_costs, cost_entry),
     total_session_cost |-> tracker.total_session_cost + cost_entry.total_cost_usd]

\* ProcessSummary over the entries of the request's own records only
ProcessSummary_OwnRequest(r) ==
    LET own(e) == e.input_tokens = ProcInputTokens(r)
        costs  == SelectSeq(pr_tracker.session_costs, own)
    IN  GetSessionSummary(costs, SumField(costs, "total_cost_usd"))

\* line 430: cost_tracker.get_session_summary() in the generator of request r
ProcessSummary(r) ==
    GetSessionSummary(pr_tracker.session_costs, pr_tracker.total_session_cost)

ProcInit ==
    /\ pr_pc = [r \in IngestRequests |-> "request"]
    /\ pr_rows = [r \in IngestRequests |-> 0]
    /\ pr_row_count = [r \in IngestRequests |-> 0]
    /\ pr_counts = [r \in IngestRequests |-> ZeroCounts]
    /\ pr_doc = [r \in IngestRequests |-> <<>>]
    /\ pr_cur = [r \in IngestRequests |-> NoRecord]
    /\ pr_tracker = NewTracker

\* lines 189-209 and 435: request r arrives naming one source of n records;
\* its severity_counts is created, the generator starts, yields the opening
\* marker and waits in that yield
ProcStart(r, n) ==
    /\ pr_pc[r] = "request"
    /\ pr_rows' = [pr_rows EXCEPT ![r] = n]
    /\ pr_counts' = [pr_counts EXCEPT ![r] = ZeroCounts]
    /\ pr_doc' = [pr_doc EXCEPT ![r] = <<OpenChunk>>]
    /\ pr_pc' = [pr_pc EXCEPT ![r] = "reading"]
    /\ UNCHANGED <<pr_row_count, pr_cur, pr_tracker>>
    /\ UNCHANGED <<streamVars, classVars, mwVars, costVars>>

\* the generator of request r is resumed from a yield.  With a record left
\* (lines 222-262) it reads it and waits in the await of the engine; with
\* none left (lines 419-433) it logs the session summary and yields the
\* closing section, or leaves with the error log_session_summary raised.
ProcResume(r) ==
    /\ pr_pc[r] = "reading"
    /\ IF pr_row_count[r] < pr_rows[r]
       THEN /\ pr_row_count' = [pr_row_count EXCEPT ![r] = @ + 1]
            /\ pr_pc' = [pr_pc EXCEPT ![r] = "engine"]
            /\ UNCHANGED pr_doc
       ELSE IF LogSessionSummaryRaises(pr_tracker.session_costs,
                                       pr_tracker.total_session_cost)
       THEN /\ pr_pc' = [pr_pc EXCEPT ![r] = "raised_summary"]
            /\ UNCHANGED <<pr_row_count, pr_doc>>
       ELSE /\ pr_doc' = [pr_doc EXCEPT ![r] =
                             Append(@, CloseChunk(pr_counts[r], ProcessSummary(r)))]
            /\ pr_pc' = [pr_pc EXCEPT ![r] = "done"]
            /\ UNCHANGED pr_row_count
    /\ UNCHANGED <<pr_rows, pr_counts, pr_cur, pr_tracker>>
    /\ UNCHANGED <<streamVars, classVars, mwVars, costVars>>

\* lines 277-395 and 407-410: the engine is through with the record of
\* request r.  When it returned, the cost is logged on the process's tracker
\* and the severity is parsed and counted in the request's severity_counts;
\* when it raised, the except clause takes over.  Then the generator runs to
\* its next yield: for the first record of the request that is the yield of
\* the event; for a later record it is the yield of the separator, and the
\* event is due when the generator is resumed.
ProcEngineReturns(r, o) ==
    /\ pr_pc[r] = "engine"
    /\ LET n          == pr_row_count[r]
           row        == ProcRow(r, n)
           cost_entry == CsvCostEntry(EstimateTokens(JsonLen(row)), o.text,
                                      DeviceId(row), o.function_calls, r)
           severity   == ParseSeverity(o.text)
           event      == IF o.kind = "ok"
                         THEN SuccessEvent(n, r, row, o.text, severity)
                         ELSE ErrorEvent(n, r, row, o.kind)
       IN  /\ IF o.kind = "ok"
              THEN /\ pr_tracker' = Logged(pr_tracker, cost_entry)
                   /\ pr_counts' = [pr_counts EXCEPT ![r] =
                                        CountSeverity(@, severity)]
              ELSE UNCHANGED <<pr_tracker, pr_counts>>
           /\ IF n = 1
              THEN /\ pr_doc' = [pr_doc EXCEPT ![r] = Append(@, event)]
                   /\ pr_pc' = [pr_pc EXCEPT ![r] = "reading"]
                   /\ UNCHANGED pr_cur
              ELSE /\ pr_doc' = [pr_doc EXCEPT ![r] = Append(@, CommaChunk)]
                   /\ pr_cur' = [pr_cur EXCEPT ![r] = event]
                   /\ pr_pc' = [pr_pc EXCEPT ![r] = "separator"]
    /\ UNCHANGED <<pr_rows, pr_row_count>>
    /\ UNCHANGED <<streamVars, classVars, mwVars, costVars>>

\* lines 396-405 and 411-417: the generator of request r is resumed from the
\* yield of the separator and yields the event of the record
ProcYieldEvent(r) ==
    /\ pr_pc[r] = "separator"
    /\ pr_doc' = [pr_doc EXCEPT ![r] = Append(@, pr_cur[r])]
    /\ pr_cur' = [pr_cur EXCEPT ![r] = NoRecord]
    /\ pr_pc' = [pr_pc EXCEPT ![r] = "reading"]
    /\ UNCHANGED <<pr_rows, pr_row_count, pr_counts, pr_tracker>>
    /\ UNCHANGED <<streamVars, classVars, mwVars, costVars>>

InitProcess == StreamIdle /\ ClassIdle /\ MwIdle /\ CostIdle /\ ProcInit

NextProcess ==
    \/ \E r \in IngestRequests, n \in 0..MaxIngestRecords : ProcStart(r, n)
    \/ \E r \in IngestRequests : ProcResume(r)
    \/ \E r \in IngestRequests, o \in ProcessOutcomes : ProcEngineReturns(r, o)
    \/ \E r \in IngestRequests : ProcYieldEvent(r)

SpecProcess == InitProcess /\ [][NextProcess]_vars

-----------------------------------------------------------------------------
(* Properties of the ingest stream (specification Spec) *)

IsEvent(c) == c.t \in {"event", "error"}

\* the StreamEvents emitted so far, in emission order
Events == SelectSeq(chunks, IsEvent)

\* the record read last is still being processed (or was, when the stream
\* was abandoned): its event is not out
InFlight == cur.kind \in {"read", "ok", "error"}

\* the separator of the record's event is out and the event itself is due
EventDue == cur.kind \in {"ok", "error"} /\ pc \in {"event", "abandoned"}

\* the generator has left the record loop
LoopLeft == pc \in {"summary", "done", "raised_summary"}

\* the records whose processing is over
Processed == IF InFlight THEN row_count - 1 ELSE row_count

\* C1: every record read by the multiplexer yields exactly one StreamEvent,
\* a success or an error event, never zero and never two: the events emitted
\* are exactly those of the processed records, one each, and when the record
\* loop is left every record of every source has been read and has its event.
C1_OneEventPerRecord ==
    LET ev == Events
    IN  /\ Len(reads) = row_count
        /\ Len(ev) = Processed
        /\ \A n \in 1..Processed :
              Cardinality({k \in 1..Len(ev) : ev[k].row = n}) = 1
        /\ \A k \in 1..Len(ev) :
              /\ ev[k].row \in 1..Processed
              /\ ev[k].source = reads[ev[k].row][1]
        /\ LoopLeft => (Processed = TotalRows(sources) /\ Len(ev) = TotalRows(sources))

\* C1 witness: a finished stream of several records holding an error event
\* and a success event with empty text
C1_Witness ==
    /\ pc = "done"
    /\ row_count >= 2
    /\ \E k \in 1..Len(Events) : Events[k].t = "error"
    /\ \E k \in 1..Len(Events) : Events[k].t = "event" /\ Events[k].response = <<>>

\* the records of pass p: one from every source that still has one
PassOrder(srcs, p) ==
    LET has(s) == srcs[s].rows >= p
    IN  [k \in 1..Len(SelectSeq([s \in 1..Len(srcs) |-> s], has)) |->
            <<SelectSeq([s \in 1..Len(srcs) |-> s], has)[k], p>>]

RECURSIVE RoundRobin(_, _)
\* passes p, p+1, ... until no source has a record left
RoundRobin(srcs, p) ==
    IF \A s \in 1..Len(srcs) : srcs[s].rows < p THEN <<>>
    ELSE PassOrder(srcs, p) \o RoundRobin(srcs, p + 1)

IsPrefix(a, b) == Len(a) <= Len(b) /\ SubSeq(b, 1, Len(a)) = a

\* C2: records are taken pass by pass, one from every source that still has
\* one, in source-list order; the events carry row = 1, 2, 3, ... in that
\* order; for lengths 3 and 5 the order is s1[0] s2[0] s1[1] s2[1] s1[2]
\* s2[2] s2[3] s2[4].
C2_RoundRobinOrder ==
    /\ IsPrefix(reads, RoundRobin(sources, 1))
    /\ LoopLeft => reads = RoundRobin(sources, 1)
    /\ LET ev == Events
       IN  \A k \in 1..Len(ev) : ev[k].row = k /\ ev[k].source = reads[k][1]
    /\ (sources = ExampleSources /\ LoopLeft) =>
          reads = << <<1, 1>>, <<2, 1>>, <<1, 2>>, <<2, 2>>,
                     <<1, 3>>, <<2, 3>>, <<2, 4>>, <<2, 5>> >>

\* C2 witness: the stream over the sources of lengths 3 and 5 has finished
C2_Witness ==
    /\ sources = ExampleSources
    /\ pc = "done"
    /\ Len(Events) = 8

\* C3: when a declared source cannot be opened the request is answered with
\* a client-error JSON response and nothing of the streamed document has
\* been emitted.
C3_FailFast ==
    pc = "raised_open" => (chunks = <<>> /\ http_status \in 400..499)

\* C4: when the engine raises for record k, an error event for k carrying
\* row, source, device_id and error is emitted, and every remaining record
\* of every source is still read and processed.
C4_ErrorContained ==
    /\ LET ev == Events
       IN  \A n \in 1..Len(engine_log) :
              (engine_log[n].raised /\ engine_log[n].row <= Processed) =>
                  \E k \in 1..Len(ev) :
                      /\ ev[k].t = "error"
                      /\ ev[k].row = engine_log[n].row
                      /\ ev[k].source = reads[engine_log[n].row][1]
                      /\ ev[k].device_id =
                            DeviceId(RowOf(reads[engine_log[n].row][1],
                                           reads[engine_log[n].row][2]))
                      /\ ev[k].error \in {"session_error", "run_error"}
    /\ (\E n \in 1..Len(engine_log) : engine_log[n].raised) =>
          /\ pc # "raised_open"
          /\ LoopLeft => Len(engine_log) = TotalRows(sources)

\* C4 witness: the engine raised for the first record of a finished stream
\* and a later record was processed successfully
C4_Witness ==
    /\ pc = "done"
    /\ Len(Events) >= 2
    /\ Events[1].t = "error"
    /\ Events[1].device_id # Unknown
    /\ \E k \in 2..Len(Events) : Events[k].t = "event"

\* C5: once all sources are opened the stream ends with the closing section,
\* also with zero records and when every record produced an error event
\* (stated on the terminated generator).
C5_ClosingEmitted ==
    pc \in {"done", "raised_summary"} =>
        (chunks # <<>> /\ chunks[Len(chunks)].t = "close")

\* C6: the opening marker is the first chunk; a comma comes immediately
\* before every event except the first and nowhere else, so n events are
\* separated by max(0, n-1) commas and no comma leads or trails the array.
C6_CommaSeparated ==
    /\ chunks # <<>> => chunks[1] = OpenChunk
    /\ \A k \in 2..Len(chunks) : chunks[k].t # "open"
    /\ \A k \in 1..Len(chunks) :
          /\ IsEvent(chunks[k]) =>
                IF \E j \in 1..(k - 1) : IsEvent(chunks[j])
                THEN chunks[k - 1].t = "comma"
                ELSE chunks[k - 1].t = "open"
          /\ chunks[k].t = "comma" =>
                /\ IsEvent(chunks[k - 1])
                /\ IF k = Len(chunks) THEN EventDue ELSE IsEvent(chunks[k + 1])
          /\ chunks[k].t = "close" => chunks[k - 1].t # "comma"
    /\ ~EventDue =>
          Cardinality({k \in 1..Len(chunks) : chunks[k].t = "comma"})
              = (IF Len(Events) = 0 THEN 0 ELSE Len(Events) - 1)

\* C6 witness: a closed document with an error event followed by a success
\* event and a success event followed by an error event
C6_Witness ==
    /\ pc = "done"
    /\ Len(Events) >= 3
    /\ \E k \in 1..(Len(Events) - 1) : Events[k].t = "error" /\ Events[k + 1].t = "event"
    /\ \E k \in 1..(Len(Events) - 1) : Events[k].t = "event" /\ Events[k + 1].t = "error"

\* C9: the stage issues a downstream call for a processed record if and only
\* if its severity is MEDIUM, HIGH or CRITICAL: exactly one call then, none
\* for LOW or null.
C9_ForwardIffSevere ==
    \A n \in 1..Len(engine_log) :
        ~engine_log[n].raised =>
            engine_log[n].a2a_calls =
                (IF ForwardRequired(engine_log[n].severity) THEN 1 ELSE 0)

\* C14: a failure of cost logging does not change the record's outcome: every
\* record for which the engine returned has a success event carrying the
\* engine's response and the severity parsed from it.
C14_CostFailureContained ==
    LET ev == Events
    IN  \A n \in 1..Len(engine_log) :
            (~engine_log[n].raised /\ engine_log[n].row <= Len(ev)) =>
                /\ ev[engine_log[n].row].t = "event"
                /\ ev[engine_log[n].row].response = engine_log[n].text
                /\ ev[engine_log[n].row].severity = ParseSeverity(engine_log[n].text)

\* the event of the record that went through Execute and is not yet out
Pending == IF cur.kind \in {"ok", "error"} THEN <<EventOf(row_count, cur)>> ELSE <<>>

\* the outcomes of the records handled so far, in order
Outcomes == Events \o Pending

\* C16: severity_counts[L] is the number of success events with severity L;
\* error events and success events with null severity are in no bucket, so
\* the buckets, the null-severity successes and the errors add up to the
\* records handled (all records at the end of the stream, where the closing
\* section reports the counts); one source giving [LOW, HIGH] ends with
\* LOW 1, MEDIUM 0, HIGH 1, CRITICAL 0 and 2 success events.
C16_SeverityCountsTally ==
    LET oc       == Outcomes
        succ(l)  == {k \in 1..Len(oc) : oc[k].t = "event" /\ oc[k].severity = l}
        errs     == {k \in 1..Len(oc) : oc[k].t = "error"}
    IN  /\ DOMAIN severity_counts = {"LOW", "MEDIUM", "HIGH", "CRITICAL"}
        /\ \A l \in DOMAIN severity_counts : severity_counts[l] = Cardinality(succ(l))
        /\ severity_counts["LOW"] + severity_counts["MEDIUM"] + severity_counts["HIGH"]
              + severity_counts["CRITICAL"] + Cardinality(succ(None)) + Cardinality(errs)
              = Len(oc)
        /\ pc = "done" =>
              /\ Len(oc) = TotalRows(sources)
              /\ chunks[Len(chunks)].severity_counts = severity_counts
        /\ (/\ pc = "done"
            /\ Len(sources) = 1
            /\ Len(oc) = 2
            /\ oc[1].t = "event" /\ oc[1].severity = "LOW"
            /\ oc[2].t = "event" /\ oc[2].severity = "HIGH")
              => severity_counts = [LOW |-> 1, MEDIUM |-> 0, HIGH |-> 1, CRITICAL |-> 0]

\* C16 witness: one source whose two records gave LOW then HIGH, closed
C16_Witness ==
    /\ pc = "done"
    /\ Len(sources) = 1
    /\ Len(Events) = 2
    /\ Events[1].t = "event" /\ Events[1].severity = "LOW"
    /\ Events[2].t = "event" /\ Events[2].severity = "HIGH"
    /\ chunks[Len(chunks)].severity_counts
          = [LOW |-> 1, MEDIUM |-> 0, HIGH |-> 1, CRITICAL |-> 0]

\* C17: processing is sequential: while record N+1 is read or is with the
\* engine, the events of records 1..N are out and no later invocation has
\* started; the events are in the order the records were read and their row
\* values increase strictly.
C17_Sequential ==
    LET ev == Events
    IN  /\ Len(ev) = (IF InFlight THEN row_count - 1 ELSE row_count)
        /\ Len(engine_log) = (IF cur.kind = "read" THEN row_count - 1 ELSE row_count)
        /\ \A k \in 1..Len(ev) :
              /\ ev[k].source = reads[k][1]
              /\ ev[k].device_id = DeviceId(RowOf(reads[k][1], reads[k][2]))
        /\ \A k \in 1..(Len(ev) - 1) : ev[k].row < ev[k + 1].row

\* C17 witness: the third record is with the engine while the events of the
\* first two, from two different sources, are out
C17_Witness ==
    /\ pc = "execute"
    /\ row_count = 3
    /\ Len(Events) = 2
    /\ Events[1].source # Events[2].source

\* the generator has terminated, normally or not
Terminated == pc \in {"done", "raised_open", "raised_read", "raised_summary", "abandoned"}

\* C18: when the stream has terminated, however it did, no source handle
\* opened by the request is still open.
C18_HandlesClosed == Terminated => open_handles = {}

\* C19: when the read of a source's next record fails after the source gave
\* records, the other sources are still read to their end and the document is
\* closed with the summary section.
C19_ReadFailureContained ==
    (Terminated /\ cur.kind = "read_error" /\ cursor[cur.source] >= 1) =>
        /\ chunks[Len(chunks)].t = "close"
        /\ \A q \in 1..Len(sources) : q # cur.source => cursor[q] = sources[q].rows

\* C20: one ledger entry is appended for every record on which the engine is
\* invoked, whether the invocation returns or raises.
C20_EveryInvocationPriced == Len(session_costs) = Len(engine_log)

\* C27: the endpoint normalises its input before any streaming starts: a
\* non-empty list csv_paths is the source list, whatever csv_path is; else a
\* non-empty string csv_path is the only source; else the request is answered
\* with status 400 and no stream, ledger entry or severity count is produced.
C27_InputNormalised ==
    /\ pc = "request" => (chunks = <<>> /\ http_status = 0)
    /\ pc # "request" =>
          IF data.csv_paths.type = "list" /\ Len(data.csv_paths.val) >= 1
          THEN sources = data.csv_paths.val /\ http_status = 200
          ELSE IF data.csv_path.type = "str" /\ Len(data.csv_path.val) = 1
          THEN sources = <<data.csv_path.val[1]>> /\ http_status = 200
          ELSE /\ pc = "rejected"
               /\ http_status = 400
               /\ chunks = <<>>
               /\ session_costs = <<>> /\ total_session_cost = 0
               /\ severity_counts = ZeroCounts
               /\ reads = <<>> /\ engine_log = <<>>
               /\ file_handles = <<>>

\* C27 witness: csv_paths and csv_path both name a source, and the generator
\* ran over the csv_paths list, which has no record, not over csv_path
C27_Witness ==
    /\ data.csv_paths = ListOf(<<NoRows>>)
    /\ data.csv_path = StrOf(<<OneRow>>)
    /\ sources = <<NoRows>>
    /\ pc \in {"done", "raised_summary"}
    /\ row_count = 0

\* C23: the StreamEvent of a record that is forwarded does not wait for the
\* downstream stage: while the downstream call is unanswered the engine's
\* invocation can still complete, so that the record's event is emitted.
C23_EventNotBlocked ==
    (pc = "execute" /\ downstream.state = "pending") =>
        ENABLED (\E o \in EngineOutcomes(sources) : Execute(o))

\* the engine returned for record n with function calls and with no text or
\* only whitespace
BlankReturn(n) ==
    /\ ~engine_log[n].raised
    /\ engine_log[n].function_calls > 0
    /\ Strip(engine_log[n].text) = <<>>

\* the records counted in a severity bucket
Counted == {n \in 1..Len(engine_log) : engine_log[n].severity \in DOMAIN ZeroCounts}

\* C25: a record for which the engine returns function calls and no text, or
\* only whitespace, is not turned into an error: it yields a success event
\* that carries the blank text the engine returned and severity null, it
\* increments no severity bucket, no downstream call is made for it, and the
\* record loop is left only after every remaining record has been processed.
C25_BlankTextNotForwarded ==
    LET ev == Events
    IN  \A n \in 1..Len(engine_log) :
            BlankReturn(n) =>
                /\ engine_log[n].severity = None
                /\ n \notin Counted
                /\ engine_log[n].a2a_calls = 0
                /\ n <= Len(ev) =>
                      /\ ev[n].t = "event"
                      /\ ev[n].response = engine_log[n].text
                      /\ ev[n].severity = None
                /\ LoopLeft => Len(engine_log) = TotalRows(sources)

\* no indicator of a downstream report occurs in the text
ReplyAbsent(text) == \A k \in 1..Len(text) : text[k] \notin A2aIndicators

\* C26: the engine is invoked once for each record and never again for it.
\* When the downstream stage is lost, so that the call made for the record
\* stays unanswered, the stage can still complete the record: log the warning
\* and emit the success event.  When a consultation is required and no
\* downstream report is found in the final response, the warning is logged
\* and the record's success event is emitted all the same.
C26_AtMostOnceForward ==
    LET ev == Events
    IN  /\ Len(engine_log) <= row_count
        /\ \A n \in 1..Len(engine_log) : engine_log[n].row = n
        /\ (pc = "execute" /\ downstream.state = "pending") =>
              ENABLED (\E o \in EngineOutcomes(sources) :
                          /\ o.kind = "ok"
                          /\ ~o.cost_raises
                          /\ ForwardRequired(ParseSeverity(o.text))
                          /\ ReplyAbsent(o.text)
                          /\ Execute(o))
        /\ \A n \in 1..Len(engine_log) :
              (/\ ~engine_log[n].raised
               /\ ForwardRequired(engine_log[n].severity)
               /\ ReplyAbsent(engine_log[n].text)) =>
                  /\ engine_log[n].gate = "not_detected"
                  /\ n <= Len(ev) =>
                        /\ ev[n].t = "event"
                        /\ ev[n].response = engine_log[n].text
                        /\ ev[n].severity = engine_log[n].severity

\* the record loop (lines 222-421) has been left, normally or by an error
LoopExited == pc \in {"summary", "done", "raised_summary", "raised_read"}

\* C28: the number of open readers never exceeds the number of sources; a
\* pass starts with at least one reader and every reader of the pass either
\* gave a record or is removed at its end; the loop is left only with no
\* reader open, and then every source has been fully consumed.
C28_LoopTerminates ==
    /\ Len(readers) <= Len(sources)
    /\ (pc = "for" /\ i > Len(readers)) =>
          LET kept == Len(readers) - Len(readers_to_remove)
          IN  /\ Len(readers) >= 1
              /\ kept >= 0 /\ kept <= Len(reads)
              /\ \A k \in 1..kept :
                    reads[Len(reads) - kept + k][1] =
                        PopAll(readers, readers_to_remove)[k]
    /\ LoopExited =>
          /\ readers = <<>>
          /\ \A s \in 1..Len(sources) : cursor[s] = sources[s].rows

-----------------------------------------------------------------------------
(* Properties of the severity parsing (specification SpecClassify) *)

Classified == cl_sev # "unset"

\* position of a level in Levels: 1 is the most severe
Rank(level) == CHOOSE k \in 1..Len(Levels) : Levels[k] = level

KnownLevels == {Levels[k] : k \in 1..Len(Levels)}

\* the text holds the labelled marker of this level
MarkerOf(level) == HasMarker(Upper(cl_text), level)

\* the text holds this level word somewhere
WordOf(level) == HasKeyword(Upper(cl_text), level)

\* C7 as stated: a text holding the marker of a level is classified as that
\* level, whatever else it holds.
C7_MarkerLevelReturned ==
    Classified => \A l \in KnownLevels : MarkerOf(l) => cl_sev = l

\* C7 amended: a text holding labelled markers is classified as the most
\* severe level that has a marker in it, whatever level words occur elsewhere;
\* with markers of one level only, that is the marker's level.
C7_MostSevereMarkerReturned ==
    Classified =>
        \A l \in KnownLevels :
            (MarkerOf(l) /\ \A m \in KnownLevels : MarkerOf(m) => Rank(l) <= Rank(m))
                => cl_sev = l

\* C7 witness: marker LOW with the word critical elsewhere gives LOW
C7_Witness ==
    /\ Classified
    /\ MarkerOf("LOW")
    /\ WordOf("CRITICAL")
    /\ \A l \in KnownLevels \ {"LOW"} : ~MarkerOf(l)
    /\ cl_sev = "LOW"

\* C8: a text without the marker of a known level is classified as the most
\* severe level word occurring in it, and as None only if none occurs.
C8_KeywordFallback ==
    (Classified /\ \A l \in KnownLevels : ~MarkerOf(l)) =>
        IF \E l \in KnownLevels : WordOf(l)
        THEN /\ cl_sev \in KnownLevels
             /\ WordOf(cl_sev)
             /\ \A m \in KnownLevels : WordOf(m) => Rank(cl_sev) <= Rank(m)
        ELSE cl_sev = None

-----------------------------------------------------------------------------
(* Properties of the tool-call telemetry (specification SpecTelemetry) *)

\* C10: the counter value read after a request's response equals the number
\* of tool invocations made while processing that same request.
C10_CounterPerRequest ==
    \A r \in Requests :
        mw_pc[r] = "responded" => mw_tool_count[r] = mw_invoked[r]

\* the outcome expected for a counter value c and an expected minimum m
ExpectedOutcome(c, m) ==
    IF c >= m THEN "complete" ELSE IF c > 0 THEN "partial" ELSE "missed"

\* the expected minimum of a stage
ExpectedMinimum(stage) == IF stage = "diagnosis" THEN 4 ELSE 1

\* C11: after the response to a POST request the counter value read is
\* logged as exactly one outcome: complete at or above the stage's minimum
\* (4 for diagnosis, 1 for remediation), a partial-execution warning when
\* nonzero and below it, a missed-execution warning when zero.
C11_OutcomeLogged ==
    \A r \in Requests :
        (mw_pc[r] = "responded" /\ mw_method[r] = "POST") =>
            mw_outcome[r] = ExpectedOutcome(mw_tool_count[r], ExpectedMinimum(mw_stage))

\* the entries the stage's middleware has put on its cost ledger
StageLedger == ct_trackers[StageAgent(mw_stage)].session_costs

\* C21: every entry a stage logs carries estimated token counts of at least
\* 1 on both sides, also for an empty body, a non-POST request and an empty
\* response.
C21_TokensAtLeastOne ==
    \A n \in 1..Len(StageLedger) :
        StageLedger[n].input_tokens >= 1 /\ StageLedger[n].output_tokens >= 1

\* C24: the response returned to the caller is the response the downstream
\* handler produced, for every counter value and also when cost tracking
\* raised.
C24_ResponseUnchanged ==
    \A r \in Requests :
        IF mw_pc[r] = "responded"
        THEN mw_handler[r] \in Responses /\ mw_returned[r] = mw_handler[r]
        ELSE mw_returned[r] = NoResponse

\* C24 witness: a POST request answered after zero tool invocations of the
\* diagnosis stage (no summary line at all) and with a failing cost tracking,
\* its error response handed back as produced
C24_Witness ==
    \E r \in Requests :
        /\ mw_stage = "diagnosis"
        /\ mw_pc[r] = "responded"
        /\ mw_method[r] = "POST"
        /\ mw_tool_count[r] = 0
        /\ mw_outcome[r] = "none"
        /\ mw_cost_error[r]
        /\ mw_handler[r].status = 500
        /\ mw_returned[r] = mw_handler[r]

-----------------------------------------------------------------------------
(* Properties of the cost ledger (specification SpecCost) *)

\* C12: the total cost of every priced call equals its rounded input cost plus
\* its rounded output cost, and ("gemini-1.5-flash", 1000, 1000) costs
\* 0.000375 $ (375 micro-dollars).
C12_TotalIsSumOfRoundedTerms ==
    \A n \in 1..Len(ct_calls) :
        LET c == ct_calls[n]
        IN  /\ c.cost_entry.total_cost_usd
                  = c.cost_entry.input_cost_usd + c.cost_entry.output_cost_usd
            /\ (c.model_name = "gemini-1.5-flash" /\ c.input_tokens = 1000
                    /\ c.output_tokens = 1000) => c.cost_entry.total_cost_usd = 375

\* the Transaction a call left in the ledger of its tracker
Transaction(c) == ct_trackers[c.agent_name].session_costs[c.ledger_before + 1]

\* the three costs stored in the Transaction of a call
StoredCost(c) ==
    <<Transaction(c).input_cost_usd, Transaction(c).output_cost_usd,
      Transaction(c).total_cost_usd>>

\* C13: the costs stored in the Transactions of two calls with the same model
\* name and token counts are the same, whatever the tracker (agent name), the
\* ledger contents before the call, the request type and the context passed;
\* no stored cost is negative.
C13_CostDeterministic ==
    /\ \A a, b \in 1..Len(ct_calls) :
          (/\ ct_calls[a].model_name = ct_calls[b].model_name
           /\ ct_calls[a].input_tokens = ct_calls[b].input_tokens
           /\ ct_calls[a].output_tokens = ct_calls[b].output_tokens)
              => StoredCost(ct_calls[a]) = StoredCost(ct_calls[b])
    /\ \A a \in 1..Len(ct_calls) :
          /\ Transaction(ct_calls[a]).input_cost_usd >= 0
          /\ Transaction(ct_calls[a]).output_cost_usd >= 0
          /\ Transaction(ct_calls[a]).total_cost_usd >= 0

\* C13 witness: the same arguments priced twice, once without a context and
\* once with a context that has a total_cost_usd of its own, under another
\* request type, and on another tracker or on a ledger of another length
C13_Witness ==
    \E a, b \in 1..Len(ct_calls) :
        /\ ct_calls[a].model_name = ct_calls[b].model_name
        /\ ct_calls[a].input_tokens = ct_calls[b].input_tokens
        /\ ct_calls[a].output_tokens = ct_calls[b].output_tokens
        /\ ct_calls[a].request_type # ct_calls[b].request_type
        /\ ct_calls[a].additional_context = NoContext
        /\ ct_calls[b].additional_context # NoContext
        /\ ct_calls[b].additional_context.total_cost_usd
               # Transaction(ct_calls[b]).total_cost_usd
        /\ Transaction(ct_calls[b]).context = ct_calls[b].additional_context
        /\ Transaction(ct_calls[a]).total_cost_usd > 0
        /\ \/ ct_calls[a].agent_name # ct_calls[b].agent_name
           \/ ct_calls[a].ledger_before # ct_calls[b].ledger_before

\* one step of the cost trackers: no ledger loses, reorders or changes an
\* entry, and a log_request_cost call puts one entry at the end of one ledger
LedgerStep ==
    /\ DOMAIN ct_trackers' = DOMAIN ct_trackers
    /\ \A g \in DOMAIN ct_trackers :
          LET before == ct_trackers[g].session_costs
              after  == ct_trackers'[g].session_costs
          IN  /\ Len(after) \in {Len(before), Len(before) + 1}
              /\ SubSeq(after, 1, Len(before)) = before
    /\ IF ct_calls' # ct_calls
       THEN \E g \in DOMAIN ct_trackers :
               /\ ct_trackers'[g].session_costs
                     = Append(ct_trackers[g].session_costs,
                              ct_calls'[Len(ct_calls')].cost_entry)
               /\ \A h \in DOMAIN ct_trackers \ {g} : ct_trackers'[h] = ct_trackers[h]
       ELSE ct_trackers' = ct_trackers

\* the running total and the summary of every ledger agree with its entries
LedgerConsistent ==
    \A g \in DOMAIN ct_trackers :
        LET costs   == ct_trackers[g].session_costs
            total   == ct_trackers[g].total_session_cost
            summary == GetSessionSummary(costs, total)
        IN  /\ total = SumField(costs, "total_cost_usd")
            /\ summary.total_requests = Len(costs)
            /\ summary.total_cost_usd = SumField(costs, "total_cost_usd")

\* C22: the ledger is append-only with a consistent running total: every
\* log_request_cost call appends exactly one entry at the end and leaves the
\* earlier entries as they were, and after any sequence of calls the running
\* total is the sum of the entries' total_cost_usd and the summary's
\* total_requests is the number of entries.
C22_AppendOnlyLedger == [][LedgerStep]_vars /\ []LedgerConsistent

\* C22 witness: two different entries on one ledger, a third call made on the
\* other one between a summary of each
C22_Witness ==
    \E g \in DOMAIN ct_trackers :
        /\ Len(ct_trackers[g].session_costs) = 2
        /\ ct_trackers[g].session_costs[1] # ct_trackers[g].session_costs[2]
        /\ ct_trackers[g].total_session_cost
              = ct_trackers[g].session_costs[1].total_cost_usd
                   + ct_trackers[g].session_costs[2].total_cost_usd
        /\ ct_trackers[g].total_session_cost > ct_trackers[g].session_costs[1].total_cost_usd
        /\ \E a \in 1..Len(ct_summaries) :
              /\ ct_summaries[a].agent_name = g
              /\ ct_summaries[a].summary.total_requests = 2

RECURSIVE LedgerOf(_, _)
\* the entries the calls made so far put on the ledger of one agent, in order
LedgerOf(calls, agent_name) ==
    IF calls = <<>> THEN <<>>
    ELSE IF Head(calls).agent_name = agent_name
         THEN <<Head(calls).cost_entry>> \o LedgerOf(Tail(calls), agent_name)
         ELSE LedgerOf(Tail(calls), agent_name)

\* C15: the summaries returned for a tracker since the last log_request_cost
\* are all identical; a summary call leaves every ledger and running total as
\* the log calls made them; the summary of a ledger with no entries is
\* total_requests 0, total_cost_usd 0.0, average_cost_per_request 0.0.
C15_SummaryIdempotent ==
    /\ \A a, b \in 1..Len(ct_summaries) :
          ct_summaries[a].agent_name = ct_summaries[b].agent_name
              => ct_summaries[a].summary = ct_summaries[b].summary
    /\ \A g \in DOMAIN ct_trackers :
          /\ ct_trackers[g].session_costs = LedgerOf(ct_calls, g)
          /\ ct_trackers[g].total_session_cost
                = SumField(LedgerOf(ct_calls, g), "total_cost_usd")
    /\ \A a \in 1..Len(ct_summaries) :
          LedgerOf(ct_calls, ct_summaries[a].agent_name) = <<>>
              => ct_summaries[a].summary
                    = [total_requests |-> 0, total_cost_usd |-> 0,
                       average_cost_per_request |-> 0]

\* C15 witness: the summary of a ledger with entries was returned twice in a row
C15_Witness ==
    /\ Len(ct_summaries) >= 2
    /\ ct_summaries[1].agent_name = ct_summaries[2].agent_name
    /\ ct_summaries[1].summary.total_requests >= 1
    /\ ct_summaries[1].summary.total_cost_usd > 0

-----------------------------------------------------------------------------
(* Properties of two ingest requests in one process (specification SpecProcess) *)

IsSuccess(c) == c.t = "event"

\* the success events in the document of request r
Successes(r) == SelectSeq(pr_doc[r], IsSuccess)

\* the ledger entries logged for records of request r, in ledger order
EntriesOf(r) ==
    LET own(e) == e.input_tokens = ProcInputTokens(r)
    IN  SelectSeq(pr_tracker.session_costs, own)

RECURSIVE SumOver(_, _)
\* the sum of f[r] over the requests in S
SumOver(f, S) ==
    IF S = {} THEN 0
    ELSE LET r == CHOOSE q \in S : TRUE
         IN  f[r] + SumOver(f, S \ {r})

\* the success events of the records of request r for which the engine has
\* returned: those in the document and the one due after a separator
Executed(r) ==
    Successes(r)
        \o (IF pr_pc[r] = "separator" /\ pr_cur[r].t = "event"
            THEN <<pr_cur[r]>> ELSE <<>>)

\* the successful executions of all requests so far
Executions == SumOver([r \in IngestRequests |-> Len(Executed(r))], IngestRequests)

\* C29: however the two requests interleave, every successful execution has
\* exactly one ledger entry, the entry priced from its record and response;
\* the ledger holds nothing else, and the running total is the sum of the
\* entries' costs.
C29_LedgerUnderInterleaving ==
    /\ ProcInputTokens(1) # ProcInputTokens(2)
    /\ Len(pr_tracker.session_costs) = Executions
    /\ \A r \in IngestRequests :
          /\ Len(EntriesOf(r)) = Len(Executed(r))
          /\ \A k \in 1..Len(EntriesOf(r)) :
                \E o \in ProcessOutcomes :
                    EntriesOf(r)[k] =
                        CsvCostEntry(ProcInputTokens(r), Executed(r)[k].response,
                                     Executed(r)[k].device_id, o.function_calls, r)
    /\ pr_tracker.total_session_cost =
          SumField(pr_tracker.session_costs, "total_cost_usd")

\* C29 witness: both requests are through and their executions alternated:
\* the ledger holds an entry of request 1, then one of request 2, then one of
\* request 1, then one of request 2
C29_Witness ==
    /\ \A r \in IngestRequests : pr_pc[r] = "done"
    /\ Len(pr_tracker.session_costs) = 4
    /\ \A k \in 1..4 :
          pr_tracker.session_costs[k].input_tokens
              = ProcInputTokens(IF k \in {1, 3} THEN 1 ELSE 2)

\* the closing section of the document of request r
Closing(r) == pr_doc[r][Len(pr_doc[r])]

\* severity_counts of request r tallies the executed records of r
CountsPerRequest(r) ==
    \A L \in DOMAIN ZeroCounts :
        pr_counts[r][L] =
            Cardinality({k \in 1..Len(Executed(r)) : Executed(r)[k].severity = L})

\* what a step does to the aggregates of request r
AggregateStep(r) ==
    /\ (pr_pc[r] = "request" /\ pr_pc'[r] # "request") => pr_counts'[r] = ZeroCounts
    /\ (pr_pc[r] # "done" /\ pr_pc'[r] = "done") =>
          /\ Closing(r)'.t = "close"
          /\ Closing(r)'.severity_counts = pr_counts[r]
          /\ Closing(r)'.cost_summary.total_requests = Executions
    /\ IsPrefix(pr_tracker.session_costs, pr_tracker'.session_costs)

\* C30: severity_counts starts at zero with every request and tallies that
\* request's executed records only; the cost_summary of a closing section is
\* taken from the process's ledger, which is never reset: its total_requests
\* is the number of successful executions of all requests so far and is at
\* least the number of success events of the document it closes.
C30_AggregateScopes ==
    /\ [][\A r \in IngestRequests : AggregateStep(r)]_vars
    /\ [](\A r \in IngestRequests :
             /\ CountsPerRequest(r)
             /\ pr_pc[r] = "done" =>
                   /\ Closing(r).severity_counts = pr_counts[r]
                   /\ Closing(r).cost_summary.total_requests >= Len(Successes(r)))

\* C30 witness: request 1 was closed after its one execution, request 2 after
\* its two: the second closing section counts three requests, its document
\* holds two success events and its severity_counts two records
C30_Witness ==
    /\ \A r \in IngestRequests : pr_pc[r] = "done"
    /\ Len(Successes(1)) = 1 /\ Len(Successes(2)) = 2
    /\ Closing(1).cost_summary.total_requests = 1
    /\ Closing(2).cost_summary.total_requests = 3
    /\ pr_counts[1] = [ZeroCounts EXCEPT !["LOW"] = 1]
    /\ pr_counts[2] = [ZeroCounts EXCEPT !["MEDIUM"] = 2]
    /\ Closing(2).severity_counts = pr_counts[2]

====
